---- MODULE Spec2Model ----
(***************************************************************************)
(* Team-management client (React views over a Supabase store).             *)
(*                                                                         *)
(* The store is the set of tables of the migration with their CHECK,       *)
(* UNIQUE and row-level-security rules; each view keeps its own React      *)
(* state.  A handler that is awaited as a whole is one action; a fetch     *)
(* that a handler starts without awaiting it is a separate action that     *)
(* runs later; handlers whose interleaving matters are split at their      *)
(* awaits.                                                                 *)
(*                                                                         *)
(* Specifications: SpecFriends (Friends page), SpecTasks (project detail   *)
(* and todo views), SpecChat (chat and project team messages), SpecAuth    *)
(* (AuthProvider), SpecProgress (updateTaskStatus over every task list),   *)
(* SpecNotifications (Notifications page), SpecUnmount (navigation with    *)
(* fetches in flight), SpecActivity (Activity page), SpecInserts (the      *)
(* handlers that notify after an insert), SpecOverlap (overlapping         *)
(* updateTaskStatus calls), SpecMutations (mutations of the Todo,          *)
(* Notifications and Friends lists) and SpecTeam (team chat of a project   *)
(* of three users).  Each keeps the variables of the views it leaves out   *)
(* at their initial values.                                                *)
(***************************************************************************)
EXTENDS Integers, Sequences, FiniteSets, TLC

VARIABLES
    profiles,       \* table profiles: sequence of rows, in insertion order
    friendships,    \* table friendships: set of rows
    messages,       \* table messages: set of rows
    notifications,  \* table notifications: set of rows
    projects,       \* table projects: set of rows
    tasks,          \* table tasks: set of rows
    nextTaskId,     \* next fresh task id (tasks can be deleted)
    fview,          \* Friends page state, per user
    cview,          \* Chat page state, per user
    pview,          \* Projects page state, per user
    tview,          \* Todo page state, per user
    nview,          \* Notifications page state
    aview,          \* Activity page state, with the clock reading of its last render
    inflight,       \* Projects.updateTaskStatus calls suspended at an await
    auth,           \* AuthProvider state
    authTasks,      \* fetchUserProfile calls suspended at an await
    provider,       \* the auth provider's current session
    lastOp          \* the last mutating handler that finished, with what it reported

storeVars == <<profiles, friendships, messages, notifications, projects, tasks, nextTaskId>>
viewVars  == <<fview, cview, pview, tview, nview, aview, inflight>>
authVars  == <<auth, authTasks, provider>>
vars      == <<storeVars, viewVars, authVars, lastOp>>

Null == "null"

(***************************************************************************)
(* Generic helpers                                                         *)
(***************************************************************************)
Max(S) == CHOOSE x \in S : \A y \in S : y <= x

\* gen_random_uuid(): an id no row of the table has or had
FreshId(T) == IF T = {} THEN 1 ELSE 1 + Max({r.id : r \in T})

\* rows of a table in the order the store returns them (by id)
RECURSIVE RowSeq(_)
RowSeq(T) ==
    IF T = {} THEN <<>>
    ELSE LET r == CHOOSE x \in T : \A y \in T : x.id <= y.id
         IN  <<r>> \o RowSeq(T \ {r})

SeqMap(F(_), s) == [i \in 1..Len(s) |-> F(s[i])]
Range(s) == {s[i] : i \in 1..Len(s)}
Ids(list) == {p.id : p \in Range(list)}
Take(s, n) == SubSeq(s, 1, IF Len(s) < n THEN Len(s) ELSE n)

\* Outcome of one awaited store call as the handler sees it: a result without
\* error, a result carrying an error, or a rejected promise.
\* `if (error) throw error` after the triggering call without the throw: the
\* rest of the try block runs whatever the call returned
ThrowsNever(error) == FALSE

\* `if (error) throw error`: control leaves the try block for the catch block
\* exactly when the triggering call returned an error
Throws(error) == error

CallOutcomes == {"ok", "error", "throw"}

NoOp == [op |-> "none", actor |-> Null, target |-> Null, arg |-> Null,
         trigger |-> "none", notif |-> "none", toasts |-> {}, viewUpdated |-> FALSE]

(***************************************************************************)
(* Data pages: users, profiles                                             *)
(***************************************************************************)
Users == {"u1", "u2", "u3"}

Usernames == [u \in Users |->
    CASE u = "u1" -> <<"a", "n">>
      [] u = "u2" -> <<"A", "b">>
      [] OTHER    -> <<"b", "o">>]

ProfileRow(u) == [id |-> u, username |-> Usernames[u], email |-> <<u, "@">>]

RECURSIVE SeqOfUsers(_)
SeqOfUsers(S) ==
    IF S = {} THEN <<>>
    ELSE LET u == CHOOSE x \in S : TRUE IN <<ProfileRow(u)>> \o SeqOfUsers(S \ {u})

\* the users who have a profile row
RegisteredUsers == {profiles[i].id : i \in 1..Len(profiles)}

\* policy "Users can read other profiles": USING (true)
ProfilesSelectPolicy(uid, row) == TRUE

\* a foreign key whose profile the reader cannot see resolves to null
NoJoin == [id |-> Null, username |-> <<>>, email |-> <<>>]

\* the profile a foreign key resolves to for the reader uid
JoinProfile(uid, id) ==
    LET hits == {i \in 1..Len(profiles) :
                    profiles[i].id = id /\ ProfilesSelectPolicy(uid, profiles[i])}
    IN  IF hits = {} THEN NoJoin ELSE profiles[CHOOSE i \in hits : TRUE]

(***************************************************************************)
(* Table friendships and its policies                                      *)
(***************************************************************************)
FriendshipRow(id, r, a, st) ==
    [id |-> id, requester_id |-> r, addressee_id |-> a, status |-> st]

\* CHECK(requester_id != addressee_id)
FriendshipsCheck(row) == row.requester_id # row.addressee_id

\* UNIQUE(requester_id, addressee_id)
FriendshipsUnique(T, row) ==
    \A r \in T : ~(r.requester_id = row.requester_id /\ r.addressee_id = row.addressee_id)

\* policy "Users can create friendship requests"
FriendshipsInsertPolicy(uid, row) == row.requester_id = uid

\* policy "Users can read own friendships"
FriendshipsSelectPolicy(uid, row) == row.requester_id = uid \/ row.addressee_id = uid

\* mutant: only the requester may update
FriendshipsUpdateRequesterOnly(uid, row) == row.requester_id = uid

\* policy "Users can update friendships they're part of"
FriendshipsUpdatePolicy(uid, row) == row.requester_id = uid \/ row.addressee_id = uid

\* the migration creates no DELETE policy on friendships: with row level
\* security enabled no row is visible to a DELETE, which then removes nothing
\* and reports no error
FriendshipsDeletePolicy(uid, row) == FALSE

\* requester_id, addressee_id REFERENCES profiles(id)
FriendshipsForeignKeys(row) ==
    {row.requester_id, row.addressee_id} \subseteq RegisteredUsers

\* does the store accept the insert of row by uid
FriendshipsAccepts(uid, T, row) ==
    /\ FriendshipsInsertPolicy(uid, row)
    /\ FriendshipsForeignKeys(row)
    /\ FriendshipsCheck(row)
    /\ FriendshipsUnique(T, row)

\* update({status}).eq('id', id) issued by uid
FriendshipsUpdateStatus(uid, T, id, st) ==
    {IF r.id = id /\ FriendshipsUpdatePolicy(uid, r) THEN [r EXCEPT !.status = st] ELSE r
        : r \in T}

\* delete() with a row filter, issued by uid
FriendshipsDelete(uid, T, Match(_)) ==
    {r \in T : ~(Match(r) /\ FriendshipsDeletePolicy(uid, r))}

(***************************************************************************)
(* Table notifications                                                     *)
(***************************************************************************)
NotificationTypes == {"friend_request", "task_deadline", "chat", "project"}

\* mutant: a user may only insert notifications addressed to themselves
NotificationsInsertOwnOnly(uid, row) == row.user_id = uid

\* policy "System can create notifications": WITH CHECK (true)
NotificationsInsertPolicy(uid, row) == TRUE

NotificationsInsert(uid, T, user_id, type) ==
    LET row == [id |-> FreshId(T), user_id |-> user_id, type |-> type, read |-> FALSE]
    IN  IF NotificationsInsertPolicy(uid, row) /\ type \in NotificationTypes
        THEN T \cup {row} ELSE T

\* policy "Users can read own notifications"
NotificationsSelectPolicy(uid, row) == row.user_id = uid

\* policy "Users can update own notifications"
NotificationsUpdatePolicy(uid, row) == row.user_id = uid

\* no policy FOR DELETE on notifications: row-level security hides every row
\* from a DELETE, which then deletes nothing and reports no error
NotificationsDeletePolicy(uid, row) == FALSE

\* update({ read: true }).eq('id', id)
NotificationsMarkRead(uid, T, id) ==
    {IF r.id = id /\ NotificationsUpdatePolicy(uid, r)
     THEN [r EXCEPT !.read = TRUE] ELSE r : r \in T}

\* update({ read: true }).eq('user_id', user_id).eq('read', false)
NotificationsMarkAllRead(uid, T, user_id) ==
    {IF r.user_id = user_id /\ ~r.read /\ NotificationsUpdatePolicy(uid, r)
     THEN [r EXCEPT !.read = TRUE] ELSE r : r \in T}

\* delete().eq('id', id)
NotificationsDelete(uid, T, id) ==
    {r \in T : ~(r.id = id /\ NotificationsDeletePolicy(uid, r))}

(***************************************************************************)
(* Pages.  The router shows one page at a time: when a page mounts the     *)
(* page shown before is unmounted, its state is dropped and what its       *)
(* pending calls set later is set on no page.                              *)
(***************************************************************************)
FetchIdle == [friends |-> "idle", requests |-> "idle", sent |-> "idle"]
FetchAll  == [friends |-> "pending", requests |-> "pending", sent |-> "pending"]

FriendsViewInit ==
    [loading |-> TRUE, friends |-> <<>>, friendRequests |-> <<>>,
     sentRequests |-> <<>>, searchResults |-> <<>>, fetch |-> FetchIdle]

ChatFetchIdle == [friends |-> "idle", messages |-> "idle", read |-> "idle"]

ChatViewInit ==
    [loading |-> TRUE, friends |-> <<>>, selectedFriend |-> NoJoin, messages |-> <<>>,
     sending |-> FALSE, fetch |-> ChatFetchIdle]

\* project_id of a task outside any project (NULL); no project row has this id
NoProjectId == 0

ProjectRow(id, c, team, progress) ==
    [id |-> id, creator_id |-> c, team_members |-> team, progress |-> progress]

\* selectedProject = null
NoProject == ProjectRow(NoProjectId, Null, <<>>, 0)

\* the requests of the Projects page that have not returned: fetchProjects;
\* the three requests of the detail effect; the fetchProjectMessages that
\* sendProjectMessage starts
ProjectsFetchIdle == [projects |-> "idle", detail |-> "idle", messages |-> "idle"]

ProjectsViewInit ==
    [loading |-> TRUE, projects |-> <<>>, selectedProject |-> NoProject,
     showProjectDetail |-> FALSE, projectTasks |-> <<>>, teamMembers |-> <<>>,
     projectMessages |-> <<>>, fetch |-> ProjectsFetchIdle]

TodoViewInit == [loading |-> TRUE, tasks |-> <<>>, fetch |-> "idle"]

NotificationsViewInit == [loading |-> TRUE, notifications |-> <<>>, fetch |-> "idle"]

\* the Activity page before its first render: tasks, events, the tab, and of
\* the last render the clock reading and the rows shown
ActivityViewInit ==
    [loading |-> TRUE, tasks |-> <<>>, events |-> <<>>, activeTab |-> "current",
     now |-> 0, rows |-> <<>>]

\* the page named mounts: the other pages are not shown, and the
\* updateTaskStatus calls still suspended belong to no page
UnmountOthers(page) ==
    /\ page = "friends" \/ fview' = FriendsViewInit
    /\ page = "chat" \/ cview' = ChatViewInit
    /\ page = "projects" \/ pview' = ProjectsViewInit
    /\ page = "todo" \/ tview' = TodoViewInit
    /\ page = "notifications" \/ nview' = NotificationsViewInit
    /\ page = "activity" \/ aview' = ActivityViewInit
    /\ inflight' = [k \in 1..Len(inflight) |-> [inflight[k] EXCEPT !.detached = TRUE]]

(***************************************************************************)
(* Friends page                                                            *)
(***************************************************************************)
\* The browser whose pages are modelled belongs to Me.  The other users run
\* the same handlers in browsers of their own; of those runs the model keeps
\* what they do to the store (the Remote... actions).
Me == "u1"
Others == RegisteredUsers \ {Me}

\* mutant: always takes the addressee
CounterpartAlwaysAddressee(uid, friendship) ==
    JoinProfile(uid, friendship.addressee_id)

\* the endpoint of an accepted row that is not the viewer
Counterpart(uid, friendship) ==
    IF friendship.requester_id = uid
    THEN JoinProfile(uid, friendship.addressee_id)
    ELSE JoinProfile(uid, friendship.requester_id)

\* fetchFriends: .or(requester_id.eq.uid, addressee_id.eq.uid).eq('status','accepted')
FetchFriendsResult(uid) ==
    LET rows == {r \in friendships :
                    /\ FriendshipsSelectPolicy(uid, r)
                    /\ (r.requester_id = uid \/ r.addressee_id = uid)
                    /\ r.status = "accepted"}
    IN  SeqMap(LAMBDA f : Counterpart(uid, f), RowSeq(rows))

\* fetchFriendRequests: .eq('addressee_id', uid).eq('status','pending')
FetchFriendRequestsResult(uid) ==
    RowSeq({r \in friendships :
                /\ FriendshipsSelectPolicy(uid, r)
                /\ r.addressee_id = uid
                /\ r.status = "pending"})

\* fetchSentRequests: .eq('requester_id', uid).eq('status','pending')
FetchSentRequestsResult(uid) ==
    RowSeq({r \in friendships :
                /\ FriendshipsSelectPolicy(uid, r)
                /\ r.requester_id = uid
                /\ r.status = "pending"})

\* the Friends page mounts: fresh state, the three fetches start
FriendsMount ==
    /\ fview' = [FriendsViewInit EXCEPT !.fetch = FetchAll]
    /\ UnmountOthers("friends")
    /\ UNCHANGED <<storeVars, authVars, lastOp>>

FetchFriends ==
    /\ fview.fetch.friends = "pending"
    /\ \E res \in {"ok", "error"} :
        fview' = [fview EXCEPT
            !.friends = IF res = "ok" THEN FetchFriendsResult(Me) ELSE @,
            !.loading = FALSE,
            !.fetch.friends = res]
    /\ UNCHANGED <<storeVars, cview, pview, tview, nview, aview, inflight, authVars, lastOp>>

FetchFriendRequests ==
    /\ fview.fetch.requests = "pending"
    /\ \E res \in {"ok", "error"} :
        fview' = [fview EXCEPT
            !.friendRequests = IF res = "ok" THEN FetchFriendRequestsResult(Me) ELSE @,
            !.fetch.requests = res]
    /\ UNCHANGED <<storeVars, cview, pview, tview, nview, aview, inflight, authVars, lastOp>>

FetchSentRequests ==
    /\ fview.fetch.sent = "pending"
    /\ \E res \in {"ok", "error"} :
        fview' = [fview EXCEPT
            !.sentRequests = IF res = "ok" THEN FetchSentRequestsResult(Me) ELSE @,
            !.fetch.sent = res]
    /\ UNCHANGED <<storeVars, cview, pview, tview, nview, aview, inflight, authVars, lastOp>>

\* what the user can type into the search box
Queries == {<<" ">>, <<"a">>, <<"b">>}

Lower(c) == IF c = "A" THEN "a" ELSE c

\* query.trim()
Trim(q) == SelectSeq(q, LAMBDA c : c # " ")

\* username ILIKE '%q%'
ILike(username, q) ==
    \E i \in 1..(Len(username) - Len(q) + 1) :
        \A j \in 1..Len(q) : Lower(username[i + j - 1]) = Lower(q[j])

SearchLimit == 10

\* the rows the profile search returns to uid
SearchQueryResult(uid, q) ==
    LET hits == SelectSeq(profiles, LAMBDA p :
                    /\ ProfilesSelectPolicy(uid, p)
                    /\ ILike(p.username, q)
                    /\ p.id # uid)
    IN  Take(hits, SearchLimit)

\* the filter searchUsers applies with the lists the view holds
SearchFilter(view, data) ==
    LET existingFriendIds == {f.id : f \in Range(view.friends)}
        pendingRequestIds ==
            {r.requester_id : r \in Range(view.friendRequests)}
            \cup {r.addressee_id : r \in Range(view.sentRequests)}
    IN  SelectSeq(data, LAMBDA p :
            p.id \notin existingFriendIds /\ p.id \notin pendingRequestIds)

\* the debounced effect runs searchUsers with the query the user typed
SearchUsers ==
    /\ ~fview.loading
    /\ \E q \in Queries, res \in {"ok", "error"} :
        /\ fview' = [fview EXCEPT !.searchResults =
                IF Trim(q) = <<>> THEN <<>>
                ELSE IF res = "ok" THEN SearchFilter(fview, SearchQueryResult(Me, q))
                ELSE @]
    /\ UNCHANGED <<storeVars, cview, pview, tview, nview, aview, inflight, authVars, lastOp>>

\* sendFriendRequest(userId), from the button of a search result
SendFriendRequest(v) ==
    /\ ~fview.loading
    /\ v \in {p.id : p \in Range(fview.searchResults)}
    /\ \E trig \in {"ok", "error"}, notif \in CallOutcomes :
        LET row == FriendshipRow(FreshId(friendships), Me, v, "pending")
            committed == trig = "ok" /\ FriendshipsAccepts(Me, friendships, row)
        IN  IF Throws(~committed)
            THEN /\ notif = "ok"
                 /\ lastOp' = [NoOp EXCEPT !.op = "sendFriendRequest", !.actor = Me,
                                !.target = v, !.trigger = "error",
                                !.toasts = {"send_request_failed"}]
                 /\ UNCHANGED <<friendships, notifications, fview, nview, aview>>
            ELSE /\ friendships' = IF committed THEN friendships \cup {row} ELSE friendships
                 /\ notifications' =
                        IF notif = "ok"
                        THEN NotificationsInsert(Me, notifications, v, "friend_request")
                        ELSE notifications
                 /\ fview' =
                        IF notif = "throw" THEN fview
                        ELSE [fview EXCEPT
                                !.searchResults = SelectSeq(@, LAMBDA p : p.id # v),
                                !.fetch.sent = "pending"]
                 /\ lastOp' = [NoOp EXCEPT !.op = "sendFriendRequest", !.actor = Me,
                                !.target = v, !.arg = row.id,
                                !.trigger = IF committed THEN "ok" ELSE "error",
                                !.notif = notif,
                                !.toasts = IF notif = "throw" THEN {"send_request_failed"}
                                           ELSE {"request_sent"},
                                !.viewUpdated = notif # "throw"]
    /\ UNCHANGED <<profiles, messages, projects, tasks, nextTaskId,
                   cview, pview, tview, nview, aview, inflight, authVars>>

FriendshipStatuses == {"pending", "accepted", "declined"}

\* respondToFriendRequest(requestId, status), from the buttons of an incoming request
RespondToFriendRequest(rid, status) ==
    /\ ~fview.loading
    /\ rid \in {r.id : r \in Range(fview.friendRequests)}
    /\ status \in {"accepted", "declined"}
    /\ \E res \in {"ok", "error"} :
        IF res = "error"
        THEN /\ lastOp' = [NoOp EXCEPT !.op = "respondToFriendRequest", !.actor = Me,
                            !.target = rid, !.arg = status, !.trigger = "error",
                            !.toasts = {"respond_failed"}]
             /\ UNCHANGED <<friendships, fview, nview, aview>>
        ELSE /\ friendships' = FriendshipsUpdateStatus(Me, friendships, rid, status)
             /\ fview' = [fview EXCEPT
                    !.fetch.friends = IF status = "accepted" THEN "pending" ELSE @,
                    !.fetch.requests = "pending"]
             /\ lastOp' = [NoOp EXCEPT !.op = "respondToFriendRequest", !.actor = Me,
                            !.target = rid, !.arg = status, !.trigger = "ok",
                            !.toasts = IF status = "accepted" THEN {"request_accepted"}
                                       ELSE {"request_declined"}]
    /\ UNCHANGED <<profiles, messages, notifications, projects, tasks, nextTaskId,
                   cview, pview, tview, nview, aview, inflight, authVars>>

\* cancelFriendRequest(requestId), from the button of a sent request
CancelFriendRequest(rid) ==
    /\ ~fview.loading
    /\ rid \in {r.id : r \in Range(fview.sentRequests)}
    /\ \E res \in {"ok", "error"} :
        IF Throws(res = "error")
        THEN /\ lastOp' = [NoOp EXCEPT !.op = "cancelFriendRequest", !.actor = Me,
                            !.target = rid, !.trigger = "error",
                            !.toasts = {"cancel_failed"}]
             /\ UNCHANGED <<friendships, fview, nview, aview>>
        ELSE /\ friendships' = IF res = "ok"
                            THEN FriendshipsDelete(Me, friendships, LAMBDA r : r.id = rid)
                            ELSE friendships
             /\ fview' = [fview EXCEPT !.fetch.sent = "pending"]
             /\ lastOp' = [NoOp EXCEPT !.op = "cancelFriendRequest", !.actor = Me,
                            !.target = rid, !.trigger = res,
                            !.toasts = {"request_cancelled"}]
    /\ UNCHANGED <<profiles, messages, notifications, projects, tasks, nextTaskId,
                   cview, pview, tview, nview, aview, inflight, authVars>>

\* removeFriend(friendId), from the button of a friend
RemoveFriend(f) ==
    /\ ~fview.loading
    /\ f \in {p.id : p \in Range(fview.friends)}
    /\ \E res \in {"ok", "error"} :
        IF Throws(res = "error")
        THEN /\ lastOp' = [NoOp EXCEPT !.op = "removeFriend", !.actor = Me,
                            !.target = f, !.trigger = "error",
                            !.toasts = {"remove_failed"}]
             /\ UNCHANGED <<friendships, fview, nview, aview>>
        ELSE /\ friendships' =
                IF res = "ok"
                THEN FriendshipsDelete(Me, friendships, LAMBDA r :
                        \/ (r.requester_id = Me /\ r.addressee_id = f)
                        \/ (r.requester_id = f /\ r.addressee_id = Me))
                ELSE friendships
             /\ fview' = [fview EXCEPT !.friends = SelectSeq(@, LAMBDA p : p.id # f)]
             /\ lastOp' = [NoOp EXCEPT !.op = "removeFriend", !.actor = Me,
                            !.target = f, !.trigger = res,
                            !.toasts = {"friend_removed"}, !.viewUpdated = TRUE]
    /\ UNCHANGED <<profiles, messages, notifications, projects, tasks, nextTaskId,
                   cview, pview, tview, nview, aview, inflight, authVars>>

(***************************************************************************)
(* The Friends page in the other users' browsers.  Such a page lists a     *)
(* search result, an incoming request, a sent request or a friend from     *)
(* what it fetched earlier, so a button stays available after the store    *)
(* has changed: a user can send a request to anyone but themselves,        *)
(* respond to any row addressed to them, cancel any row they requested and *)
(* remove anyone.                                                          *)
(***************************************************************************)
RemoteSendFriendRequest(v, x) ==
    /\ v \in Others /\ x \in RegisteredUsers \ {v}
    /\ \E notif \in {"ok", "error"} :
        LET row == FriendshipRow(FreshId(friendships), v, x, "pending")
        IN  /\ FriendshipsAccepts(v, friendships, row)
            /\ friendships' = friendships \cup {row}
            /\ notifications' =
                    IF notif = "ok"
                    THEN NotificationsInsert(v, notifications, x, "friend_request")
                    ELSE notifications
            /\ lastOp' = [NoOp EXCEPT !.op = "sendFriendRequest", !.actor = v,
                            !.target = x, !.arg = row.id, !.trigger = "ok",
                            !.notif = notif, !.toasts = {"request_sent"},
                            !.viewUpdated = TRUE]
    /\ UNCHANGED <<profiles, messages, projects, tasks, nextTaskId, viewVars, authVars>>

RemoteRespondToFriendRequest(v, rid, status) ==
    /\ v \in Others
    /\ \E r \in friendships : r.id = rid /\ r.addressee_id = v
    /\ status \in {"accepted", "declined"}
    /\ friendships' = FriendshipsUpdateStatus(v, friendships, rid, status)
    /\ lastOp' = [NoOp EXCEPT !.op = "respondToFriendRequest", !.actor = v,
                    !.target = rid, !.arg = status, !.trigger = "ok",
                    !.toasts = IF status = "accepted" THEN {"request_accepted"}
                               ELSE {"request_declined"}]
    /\ UNCHANGED <<profiles, messages, notifications, projects, tasks, nextTaskId,
                   viewVars, authVars>>

RemoteCancelFriendRequest(v, rid) ==
    /\ v \in Others
    /\ \E r \in friendships : r.id = rid /\ r.requester_id = v
    /\ friendships' = FriendshipsDelete(v, friendships, LAMBDA r : r.id = rid)
    /\ lastOp' = [NoOp EXCEPT !.op = "cancelFriendRequest", !.actor = v,
                    !.target = rid, !.trigger = "ok", !.toasts = {"request_cancelled"}]
    /\ UNCHANGED <<profiles, messages, notifications, projects, tasks, nextTaskId,
                   viewVars, authVars>>

RemoteRemoveFriend(v, f) ==
    /\ v \in Others /\ f \in RegisteredUsers \ {v}
    /\ \E r \in friendships : {r.requester_id, r.addressee_id} = {v, f}
    /\ friendships' = FriendshipsDelete(v, friendships, LAMBDA r :
            \/ (r.requester_id = v /\ r.addressee_id = f)
            \/ (r.requester_id = f /\ r.addressee_id = v))
    /\ lastOp' = [NoOp EXCEPT !.op = "removeFriend", !.actor = v,
                    !.target = f, !.trigger = "ok", !.toasts = {"friend_removed"},
                    !.viewUpdated = TRUE]
    /\ UNCHANGED <<profiles, messages, notifications, projects, tasks, nextTaskId,
                   viewVars, authVars>>

(***************************************************************************)
(* AuthProvider (session / profile binder)                                 *)
(***************************************************************************)
IdPrefixLen == 8

UserDash == <<"u", "s", "e", "r", "-">>
IdPrefix == <<"0", "1", "2", "3", "4", "5", "6", "7">>

\* mutant: the whole id, without the prefix
DefaultUsernameWholeId(id) == id

\* `user-${id.slice(0, 8)}`
DefaultUsername(id) == UserDash \o Take(id, IdPrefixLen)

\* The identities the auth provider can sign in: A1 carries an email and no
\* username in its metadata; A2 signed up with a username of its own choice,
\* which is the text A1's default would be; A3 carries no email.
A1 == [id |-> IdPrefix \o <<"a">>, email |-> "a1@x", username |-> <<>>]
A2 == [id |-> <<"9">> \o IdPrefix, email |-> "a2@x", username |-> DefaultUsername(A1.id)]
A3 == [id |-> <<"8">> \o IdPrefix, email |-> "", username |-> <<>>]
Identities == {A1, A2, A3}

\* session?.user ?? null when there is no session; a missing email or
\* metadata username is the empty text, which the handlers treat like null
NoUser == [id |-> <<>>, email |-> "", username |-> <<>>]

\* userProfile = null
NoProfile == [id |-> <<>>, username |-> <<>>, email |-> ""]

AuthEvents == {"SIGNED_IN", "SIGNED_OUT", "INITIAL_SESSION", "TOKEN_REFRESHED"}

\* simultaneous fetchUserProfile calls
MaxAuthTasks == 2

\* useState initial values, then the effect's setLoading(true)
AuthInit == [user |-> NoUser, session |-> NoUser, userProfile |-> NoProfile, loading |-> TRUE]

ProviderInit(s) == [session |-> s, initialSent |-> FALSE, lastEvent |-> "none"]

RemoveAt(s, k) == SubSeq(s, 1, k - 1) \o SubSeq(s, k + 1, Len(s))

\* policy "Users can insert own profile": WITH CHECK (auth.uid() = id)
ProfilesInsertPolicy(uid, row) == uid # <<>> /\ uid = row.id

\* id uuid PRIMARY KEY
ProfilesPrimaryKey(T, row) == \A i \in 1..Len(T) : T[i].id # row.id

\* username text UNIQUE NOT NULL
ProfilesUniqueUsername(T, row) == \A i \in 1..Len(T) : T[i].username # row.username

ProfilesAccepts(uid, T, row) ==
    /\ ProfilesInsertPolicy(uid, row)
    /\ ProfilesPrimaryKey(T, row)
    /\ ProfilesUniqueUsername(T, row)

\* select('*').eq('id', id).single(): the row, or NoProfile for PGRST116
ProfilesSingle(T, id) ==
    LET hits == {i \in 1..Len(T) : T[i].id = id}
    IN  IF Cardinality(hits) = 1 THEN T[CHOOSE i \in hits : TRUE] ELSE NoProfile

\* fetchUserProfile(currentUser) is called and suspends at its select
StartFetchUserProfile(T, currentUser, caller) ==
    Append(T, [user |-> currentUser, pc |-> "fetching", caller |-> caller, uid |-> <<>>])

\* the callback given to onAuthStateChange
OnAuthStateChange(event, session) ==
    LET starts == event \in {"SIGNED_IN", "INITIAL_SESSION"} /\ session # NoUser
    IN  /\ auth' = [auth EXCEPT
                !.session = session,
                !.user = session,
                !.userProfile = IF event = "SIGNED_OUT" THEN NoProfile ELSE @,
                !.loading = IF starts THEN @
                            ELSE IF event = "SIGNED_OUT" \/ session = NoUser THEN FALSE
                            ELSE @]
        /\ authTasks' = IF starts THEN StartFetchUserProfile(authTasks, session, "event")
                        ELSE authTasks

\* the provider reports the stored session once after subscription
ProviderInitialSession ==
    /\ ~provider.initialSent
    /\ Len(authTasks) < MaxAuthTasks
    /\ provider' = [provider EXCEPT !.initialSent = TRUE, !.lastEvent = "INITIAL_SESSION"]
    /\ OnAuthStateChange("INITIAL_SESSION", provider.session)
    /\ UNCHANGED <<storeVars, viewVars, lastOp>>

\* a sign-in succeeds, or the provider repeats SIGNED_IN for the current session
ProviderSignedIn(i) ==
    /\ provider.session \in {NoUser, i}
    /\ Len(authTasks) < MaxAuthTasks
    /\ provider' = [provider EXCEPT !.session = i, !.lastEvent = "SIGNED_IN"]
    /\ OnAuthStateChange("SIGNED_IN", i)
    /\ UNCHANGED <<storeVars, viewVars, lastOp>>

\* the session ends outside signOut() (another tab, a revoked token)
ProviderSignedOut ==
    /\ provider.session # NoUser
    /\ provider' = [provider EXCEPT !.session = NoUser, !.lastEvent = "SIGNED_OUT"]
    /\ OnAuthStateChange("SIGNED_OUT", NoUser)
    /\ UNCHANGED <<storeVars, viewVars, lastOp>>

ProviderTokenRefreshed ==
    /\ provider.session # NoUser
    /\ provider.lastEvent # "TOKEN_REFRESHED"
    /\ provider' = [provider EXCEPT !.lastEvent = "TOKEN_REFRESHED"]
    /\ OnAuthStateChange("TOKEN_REFRESHED", provider.session)
    /\ UNCHANGED <<storeVars, viewVars, lastOp>>

\* a task ends and a null result leaves the profile the provider holds
FinishTaskKeepCached(k, profile) ==
    /\ auth' = [auth EXCEPT
            !.userProfile = IF profile = NoProfile THEN @ ELSE profile,
            !.loading = IF authTasks[k].caller = "event" THEN FALSE ELSE @]
    /\ authTasks' = RemoveAt(authTasks, k)

\* a task ends; an event's task then runs .finally(() => setLoading(false))
FinishTask(k, profile) ==
    /\ auth' = [auth EXCEPT
            !.userProfile = profile,
            !.loading = IF authTasks[k].caller = "event" THEN FALSE ELSE @]
    /\ authTasks' = RemoveAt(authTasks, k)

\* fetchUserProfile resumes after its select; on PGRST116 createProfile runs up
\* to its insert
FetchUserProfileResume(k) ==
    /\ k \in 1..Len(authTasks)
    /\ authTasks[k].pc = "fetching"
    /\ \E out \in CallOutcomes :
        LET currentUser == authTasks[k].user
            data == ProfilesSingle(profiles, currentUser.id)
        IN  IF out # "ok" THEN
                /\ FinishTask(k, NoProfile)
                /\ lastOp' = [NoOp EXCEPT !.op = "fetchUserProfile", !.actor = currentUser.id,
                                !.trigger = out]
            ELSE IF data # NoProfile THEN
                /\ FinishTask(k, data)
                /\ lastOp' = [NoOp EXCEPT !.op = "fetchUserProfile", !.actor = currentUser.id,
                                !.trigger = "ok"]
            ELSE IF currentUser.email = "" THEN
                /\ FinishTask(k, NoProfile)
                /\ lastOp' = [NoOp EXCEPT !.op = "createProfile", !.actor = currentUser.id,
                                !.arg = provider.session.id,
                                !.trigger = "none", !.toasts = {"email_missing"}]
            ELSE
                /\ authTasks' = [authTasks EXCEPT ![k].pc = "inserting",
                        ![k].uid = provider.session.id]
                /\ UNCHANGED <<auth, lastOp>>
    /\ UNCHANGED <<storeVars, viewVars, provider>>

\* the row createProfile inserts for currentUser
NewProfileRow(currentUser) ==
    [id |-> currentUser.id,
     username |-> IF currentUser.username # <<>> THEN currentUser.username
                  ELSE DefaultUsername(currentUser.id),
     email |-> currentUser.email]

\* createProfile resumes after its insert(...).select().single()
CreateProfileResume(k) ==
    /\ k \in 1..Len(authTasks)
    /\ authTasks[k].pc = "inserting"
    /\ \E out \in CallOutcomes :
        LET currentUser == authTasks[k].user
            row == NewProfileRow(currentUser)
            accepted == out = "ok" /\ ProfilesAccepts(authTasks[k].uid, profiles, row)
        IN  /\ profiles' = IF accepted THEN Append(profiles, row) ELSE profiles
            /\ FinishTask(k, IF accepted THEN row ELSE NoProfile)
            /\ lastOp' = [NoOp EXCEPT !.op = "createProfile", !.actor = currentUser.id,
                            !.arg = authTasks[k].uid,
                            !.trigger = IF accepted THEN "ok"
                                        ELSE IF out = "ok" THEN "rejected" ELSE out,
                            !.toasts = IF accepted THEN {"profile_set_up"}
                                       ELSE IF out = "throw" THEN {}
                                       ELSE {"profile_init_failed"}]
    /\ UNCHANGED <<friendships, messages, notifications, projects, tasks, nextTaskId,
                   viewVars, provider>>

\* refreshProfile(), called by the Profile page after a save
RefreshProfile ==
    /\ auth.user # NoUser
    /\ Len(authTasks) < MaxAuthTasks
    /\ authTasks' = StartFetchUserProfile(authTasks, auth.user, "refresh")
    /\ UNCHANGED <<storeVars, viewVars, auth, provider, lastOp>>

\* signOut(), from the sidebar button.  The provider call either ends the
\* session, and reports SIGNED_OUT to the callback before it returns, or
\* returns an error, which the handler rethrows.
SignOut ==
    /\ auth.user # NoUser
    /\ \E out \in {"ok", "error"} :
        IF out = "ok"
        THEN /\ provider' = [provider EXCEPT !.session = NoUser, !.lastEvent = "SIGNED_OUT"]
             /\ auth' = [auth EXCEPT !.session = NoUser, !.user = NoUser,
                                     !.userProfile = NoProfile, !.loading = FALSE]
             /\ lastOp' = [NoOp EXCEPT !.op = "signOut", !.actor = auth.user.id, !.trigger = "ok",
                            !.toasts = {"logged_out"}]
        ELSE /\ lastOp' = [NoOp EXCEPT !.op = "signOut", !.actor = auth.user.id, !.trigger = "error",
                            !.toasts = {"sign_out_failed"}]
             /\ UNCHANGED <<auth, provider>>
    /\ UNCHANGED <<storeVars, viewVars, authTasks>>

InitAuthIdle ==
    /\ auth = AuthInit
    /\ authTasks = <<>>
    /\ provider = ProviderInit(NoUser)

(***************************************************************************)
(* Tables projects and tasks and their policies                            *)
(***************************************************************************)
TaskStatuses == {"pending", "in_progress", "completed"}

TaskRow(id, st, a, p, u) ==
    [id |-> id, status |-> st, assigned_to |-> a, project_id |-> p, user_id |-> u]

\* .order('created_at', { ascending: false }): newest row first
Reverse(s) == [i \in 1..Len(s) |-> s[Len(s) + 1 - i]]
RowSeqDesc(T) == Reverse(RowSeq(T))

\* policy "Users can read own projects"
ProjectsSelectPolicy(uid, row) ==
    row.creator_id = uid \/ uid \in Range(row.team_members)

\* policy "Users can update own projects"
ProjectsUpdatePolicy(uid, row) == row.creator_id = uid

\* CHECK (progress >= 0 AND progress <= 100)
ProjectsCheck(row) == row.progress >= 0 /\ row.progress <= 100

\* update({ progress }).eq('id', id): rows the policy hides are left alone
ProjectsUpdateProgress(uid, T, id, progress) ==
    {IF r.id = id /\ ProjectsUpdatePolicy(uid, r) /\ ProjectsCheck([r EXCEPT !.progress = progress])
     THEN [r EXCEPT !.progress = progress] ELSE r : r \in T}

\* policy "Users can create tasks"
TasksInsertPolicy(uid, row) == row.user_id = uid

\* policy "Users can read own tasks"
TasksSelectPolicy(uid, row) == row.user_id = uid \/ row.assigned_to = uid

\* policy "Users can update own tasks"
TasksUpdatePolicy(uid, row) == row.user_id = uid \/ row.assigned_to = uid

\* policy "Users can delete own tasks"
TasksDeletePolicy(uid, row) == row.user_id = uid

\* assigned_to, user_id REFERENCES profiles(id); project_id REFERENCES projects(id)
TasksForeignKeys(row) ==
    /\ row.assigned_to \in RegisteredUsers
    /\ row.user_id \in RegisteredUsers
    /\ row.project_id = NoProjectId \/ row.project_id \in {p.id : p \in projects}

TasksAccepts(uid, row) ==
    /\ TasksInsertPolicy(uid, row)
    /\ TasksForeignKeys(row)
    /\ row.status \in TaskStatuses

\* update({ status }).eq('id', id)
TasksUpdateStatus(uid, T, id, st) ==
    {IF r.id = id /\ TasksUpdatePolicy(uid, r) THEN [r EXCEPT !.status = st] ELSE r : r \in T}

\* delete().eq('id', id)
TasksDelete(uid, T, id) == {r \in T : ~(r.id = id /\ TasksDeletePolicy(uid, r))}

\* Math.round((completed / total) * 100), 0 without tasks
Round100(completed, total) ==
    IF total > 0 THEN (200 * completed + total) \div (2 * total) ELSE 0

(***************************************************************************)
(* Projects page: list, project detail, tasks of the project               *)
(***************************************************************************)
\* fetchProjects: .or(creator_id.eq.uid, team_members.cs.{uid})
FetchProjectsResult(uid) ==
    RowSeqDesc({p \in projects :
                    /\ ProjectsSelectPolicy(uid, p)
                    /\ (p.creator_id = uid \/ uid \in Range(p.team_members))})

\* fetchProjectTasks: .eq('project_id', id)
FetchProjectTasksResult(uid, id) ==
    RowSeqDesc({t \in tasks : TasksSelectPolicy(uid, t) /\ t.project_id = id})

\* fetchTeamMembers: .in('id', team_members)
FetchTeamMembersResult(uid, project) ==
    SelectSeq(profiles, LAMBDA p :
        ProfilesSelectPolicy(uid, p) /\ p.id \in Range(project.team_members))

\* the effect on [selectedProject, showProjectDetail]: fetchProjectTasks(),
\* fetchTeamMembers(), fetchProjectMessages()
ProjectDetailEffect(view) ==
    IF view.selectedProject # NoProject /\ view.showProjectDetail
    THEN [view EXCEPT !.fetch.detail = "pending"]
    ELSE view

\* the Projects page mounts
ProjectsMount ==
    /\ pview' = [ProjectsViewInit EXCEPT !.fetch.projects = "pending"]
    /\ UnmountOthers("projects")
    /\ UNCHANGED <<storeVars, authVars, lastOp>>

FetchProjects ==
    /\ pview.fetch.projects = "pending"
    /\ \E res \in {"ok", "error"} :
        pview' = [pview EXCEPT
            !.projects = IF res = "ok" THEN FetchProjectsResult(Me) ELSE @,
            !.loading = FALSE,
            !.fetch.projects = "idle"]
    /\ UNCHANGED <<storeVars, fview, cview, tview, nview, aview, inflight, authVars, lastOp>>

\* a project card is clicked
OpenProject(p) ==
    /\ ~pview.loading /\ ~pview.showProjectDetail
    /\ p \in Range(pview.projects)
    /\ pview' = ProjectDetailEffect([pview EXCEPT !.selectedProject = p,
                                                  !.showProjectDetail = TRUE])
    /\ UNCHANGED <<storeVars, fview, cview, tview, nview, aview, inflight, authVars, lastOp>>

\* the back button of the detail view
CloseProject ==
    /\ pview.showProjectDetail
    /\ pview' = [pview EXCEPT !.showProjectDetail = FALSE]
    /\ UNCHANGED <<storeVars, fview, cview, tview, nview, aview, inflight, authVars, lastOp>>

\* policy "Users can read their messages"
MessagesSelectPolicy(uid, row) == row.sender_id = uid \/ row.receiver_id = uid

\* fetchProjectMessages: .in('sender_id', allMembers).in('receiver_id', allMembers)
FetchProjectMessagesResult(uid, project) ==
    LET allMembers == Range(<<project.creator_id>> \o project.team_members)
    IN  RowSeq({m \in messages :
                    /\ MessagesSelectPolicy(uid, m)
                    /\ m.sender_id \in allMembers
                    /\ m.receiver_id \in allMembers})

\* what fetchProjectTasks sets
FetchProjectTasks(view, res) ==
    IF res = "ok" THEN FetchProjectTasksResult(Me, view.selectedProject.id)
    ELSE view.projectTasks

\* what fetchTeamMembers sets
FetchTeamMembers(view, res) ==
    IF view.selectedProject.team_members = <<>> THEN <<>>
    ELSE IF res = "ok" THEN FetchTeamMembersResult(Me, view.selectedProject)
    ELSE view.teamMembers

\* what fetchProjectMessages sets
FetchProjectMessages(view, res) ==
    IF res = "ok" THEN FetchProjectMessagesResult(Me, view.selectedProject)
    ELSE view.projectMessages

\* The three requests of the detail effect are sent together; their results
\* are applied in one step, each request succeeding or failing on its own.
ProjectDetailFetched ==
    /\ pview.fetch.detail = "pending"
    /\ \E rt, rm, rc \in {"ok", "error"} :
        pview' = [pview EXCEPT
            !.projectTasks = FetchProjectTasks(pview, rt),
            !.teamMembers = FetchTeamMembers(pview, rm),
            !.projectMessages = FetchProjectMessages(pview, rc),
            !.fetch.detail = "idle"]
    /\ UNCHANGED <<storeVars, fview, cview, tview, nview, aview, inflight, authVars, lastOp>>

\* simultaneous updateTaskStatus calls of the project detail view, where the
\* calls are made one after the other has finished
MaxInflight == 1

\* simultaneous updateTaskStatus calls of the project detail view, where a
\* second button is pressed while the first call is suspended
MaxOverlap == 2

\* tasks ever created
MaxTasks == 2

\* createTask notifying whoever the task is assigned to
NotifiesAssigneeAlways(assignee, uid) == TRUE

\* if (newTask.assigned_to !== user!.id): createTask notifies another user only
NotifiesAssignee(assignee, uid) == assignee # uid

\* createTask, from the task form of the project detail view; the assignee is
\* "Myself" or one of the team members the view holds
CreateTask(assignee) ==
    /\ pview.showProjectDetail /\ pview.selectedProject # NoProject
    /\ assignee \in {Me} \cup Ids(pview.teamMembers)
    /\ nextTaskId <= MaxTasks
    /\ \E trig \in {"ok", "error"}, notif \in CallOutcomes :
        LET row == TaskRow(nextTaskId, "pending", assignee, pview.selectedProject.id, Me)
            committed == trig = "ok" /\ TasksAccepts(Me, row)
            notifies == NotifiesAssignee(assignee, Me)
        IN  IF Throws(~committed)
            THEN /\ notif = "ok"
                 /\ lastOp' = [NoOp EXCEPT !.op = "createTask", !.actor = Me,
                                !.target = assignee, !.trigger = "error",
                                !.toasts = {"create_task_failed"}]
                 /\ UNCHANGED <<tasks, nextTaskId, notifications, pview, nview, aview>>
            ELSE /\ notifies \/ notif = "ok"
                 /\ tasks' = IF committed THEN tasks \cup {row} ELSE tasks
                 /\ nextTaskId' = nextTaskId + 1
                 /\ pview' = [pview EXCEPT !.projectTasks = <<row>> \o @]
                 /\ notifications' =
                        IF notifies /\ notif = "ok"
                        THEN NotificationsInsert(Me, notifications, assignee, "project")
                        ELSE notifications
                 /\ lastOp' = [NoOp EXCEPT !.op = "createTask", !.actor = Me,
                                !.target = assignee, !.arg = row.id,
                                !.trigger = IF committed THEN "ok" ELSE "error",
                                !.notif = IF notifies THEN notif ELSE "none",
                                !.toasts = IF notifies /\ notif = "throw"
                                           THEN {"task_created", "create_task_failed"}
                                           ELSE {"task_created"},
                                !.viewUpdated = TRUE]
    /\ UNCHANGED <<profiles, friendships, messages, projects,
                   fview, cview, tview, nview, aview, inflight, authVars>>

\* the button a task row offers for its status
NextStatus(st) == IF st = "pending" THEN "in_progress" ELSE "completed"

\* updateTaskStatus(taskId, status) of the project detail view is called from
\* the button of a task row: the call keeps the projectTasks and the
\* selectedProject of the render it was made in, and suspends at the task update
UpdateTaskStatus(taskId) ==
    /\ pview.showProjectDetail /\ pview.selectedProject # NoProject
    /\ \E i \in 1..Len(pview.projectTasks) :
        LET t == pview.projectTasks[i]
        IN  /\ t.id = taskId /\ t.status # "completed"
            /\ inflight' = Append(inflight,
                    [taskId |-> taskId, status |-> NextStatus(t.status),
                     projectTasks |-> pview.projectTasks,
                     projectId |-> pview.selectedProject.id,
                     pc |-> "updatingTask", newProgress |-> 0, detached |-> FALSE])
    /\ UNCHANGED <<storeVars, fview, cview, pview, tview, nview, aview, authVars, lastOp>>

\* the count without the task being changed: completed rows of the list only
ComputedProgressStale(list, taskId, status) ==
    Round100(
        Cardinality({i \in 1..Len(list) : list[i].status = "completed"}),
        Len(list))

\* updateTaskStatus(taskId, status) as a function of its arguments and of the
\* projectTasks of the render it is called in, for any status of the type
CallUpdateTaskStatus(taskId, status) ==
    /\ pview.showProjectDetail /\ pview.selectedProject # NoProject
    /\ status \in TaskStatuses
    /\ inflight' = Append(inflight,
            [taskId |-> taskId, status |-> status,
             projectTasks |-> pview.projectTasks,
             projectId |-> pview.selectedProject.id,
             pc |-> "updatingTask", newProgress |-> 0, detached |-> FALSE])
    /\ UNCHANGED <<storeVars, fview, cview, pview, tview, nview, aview, authVars, lastOp>>

\* progress as updateTaskStatus computes it from the list it holds
ComputedProgress(list, taskId, status) ==
    Round100(
        Cardinality({i \in 1..Len(list) :
            list[i].status = "completed" \/ (list[i].id = taskId /\ status = "completed")}),
        Len(list))

\* the task update returns: on success the list is mapped, the progress is
\* computed and the call suspends at the project update
UpdateTaskStatusTaskDone(k) ==
    /\ k \in 1..Len(inflight)
    /\ inflight[k].pc = "updatingTask"
    /\ \E out \in {"ok", "error"} :
        LET c == inflight[k]
        IN  IF out = "error"
            THEN /\ inflight' = RemoveAt(inflight, k)
                 /\ lastOp' = [NoOp EXCEPT !.op = "updateTaskStatus", !.actor = Me,
                                !.target = c.taskId, !.arg = c.status, !.trigger = "error",
                                !.toasts = {"update_task_failed"}]
                 /\ UNCHANGED <<tasks, pview, nview, aview>>
            ELSE /\ tasks' = TasksUpdateStatus(Me, tasks, c.taskId, c.status)
                 /\ pview' = IF c.detached THEN pview
                             ELSE [pview EXCEPT !.projectTasks =
                                SeqMap(LAMBDA t : IF t.id = c.taskId
                                                  THEN [t EXCEPT !.status = c.status] ELSE t,
                                       c.projectTasks)]
                 /\ inflight' = [inflight EXCEPT
                        ![k].pc = "updatingProject",
                        ![k].newProgress =
                            ComputedProgress(c.projectTasks, c.taskId, c.status)]
                 /\ UNCHANGED lastOp
    /\ UNCHANGED <<profiles, friendships, messages, notifications, projects, nextTaskId,
                   fview, cview, tview, nview, aview, authVars>>

\* the project update returns: its result is not looked at; a rejected
\* promise goes to the catch block
UpdateTaskStatusProjectDone(k) ==
    /\ k \in 1..Len(inflight)
    /\ inflight[k].pc = "updatingProject"
    /\ \E out \in CallOutcomes :
        LET c == inflight[k]
        IN  /\ projects' = IF out = "ok"
                           THEN ProjectsUpdateProgress(Me, projects, c.projectId, c.newProgress)
                           ELSE projects
            /\ pview' = IF out = "throw" \/ c.detached \/ pview.selectedProject = NoProject
                        THEN pview
                        ELSE ProjectDetailEffect(
                                [pview EXCEPT !.selectedProject.progress = c.newProgress])
            /\ inflight' = RemoveAt(inflight, k)
            /\ lastOp' = [NoOp EXCEPT !.op = "updateTaskStatus", !.actor = Me,
                            !.target = c.taskId, !.arg = c.status, !.trigger = "ok",
                            !.notif = out,
                            !.toasts = IF out = "throw" THEN {"update_task_failed"}
                                       ELSE {"task_updated"},
                            !.viewUpdated = TRUE]
    /\ UNCHANGED <<profiles, friendships, messages, notifications, tasks, nextTaskId,
                   fview, cview, tview, nview, aview, authVars>>

(***************************************************************************)
(* Todo page                                                               *)
(***************************************************************************)
\* fetchTasks: .eq('user_id', uid)
FetchTasksResult(uid) ==
    RowSeqDesc({t \in tasks : TasksSelectPolicy(uid, t) /\ t.user_id = uid})

\* the Todo page mounts
TodoMount ==
    /\ tview' = [TodoViewInit EXCEPT !.fetch = "pending"]
    /\ UnmountOthers("todo")
    /\ UNCHANGED <<storeVars, authVars, lastOp>>

FetchTasks ==
    /\ tview.fetch = "pending"
    /\ \E res \in {"ok", "error"} :
        tview' = [tview EXCEPT
            !.tasks = IF res = "ok" THEN FetchTasksResult(Me) ELSE @,
            !.loading = FALSE,
            !.fetch = "idle"]
    /\ UNCHANGED <<storeVars, fview, cview, pview, nview, aview, inflight, authVars, lastOp>>

\* addTask, from the form of the Todo page
AddTask ==
    /\ ~tview.loading
    /\ nextTaskId <= MaxTasks
    /\ \E trig \in {"ok", "error"} :
        LET row == TaskRow(nextTaskId, "pending", Me, NoProjectId, Me)
            committed == trig = "ok" /\ TasksAccepts(Me, row)
        IN  IF Throws(~committed)
            THEN /\ lastOp' = [NoOp EXCEPT !.op = "addTask", !.actor = Me, !.target = Me,
                                !.trigger = "error", !.toasts = {"add_task_failed"}]
                 /\ UNCHANGED <<tasks, nextTaskId, tview, nview, aview>>
            ELSE /\ tasks' = IF committed THEN tasks \cup {row} ELSE tasks
                 /\ nextTaskId' = nextTaskId + 1
                 /\ tview' = [tview EXCEPT !.tasks = <<row>> \o @]
                 /\ lastOp' = [NoOp EXCEPT !.op = "addTask", !.actor = Me, !.target = Me,
                                !.arg = row.id,
                                !.trigger = IF committed THEN "ok" ELSE "error",
                                !.toasts = {"task_added"}, !.viewUpdated = TRUE]
    /\ UNCHANGED <<profiles, friendships, messages, notifications, projects,
                   fview, cview, pview, nview, aview, inflight, authVars>>

\* updateTaskStatus(taskId, status) of the Todo page, from the button of a card
TodoUpdateTaskStatus(taskId) ==
    /\ ~tview.loading
    /\ \E i \in 1..Len(tview.tasks), res \in {"ok", "error"} :
        LET t == tview.tasks[i]
            status == NextStatus(t.status)
        IN  /\ t.id = taskId /\ t.status # "completed"
            /\ IF Throws(res = "error")
               THEN /\ lastOp' = [NoOp EXCEPT !.op = "todoUpdateTaskStatus", !.actor = Me,
                                   !.target = taskId, !.arg = status, !.trigger = "error",
                                   !.toasts = {"update_task_failed"}]
                    /\ UNCHANGED <<tasks, tview, nview, aview>>
               ELSE /\ tasks' = IF res = "ok" THEN TasksUpdateStatus(Me, tasks, taskId, status)
                             ELSE tasks
                    /\ tview' = [tview EXCEPT !.tasks =
                            SeqMap(LAMBDA x : IF x.id = taskId
                                              THEN [x EXCEPT !.status = status] ELSE x, @)]
                    /\ lastOp' = [NoOp EXCEPT !.op = "todoUpdateTaskStatus", !.actor = Me,
                                   !.target = taskId, !.arg = status, !.trigger = res,
                                   !.toasts = {"task_updated"}, !.viewUpdated = TRUE]
    /\ UNCHANGED <<profiles, friendships, messages, notifications, projects, nextTaskId,
                   fview, cview, pview, nview, aview, inflight, authVars>>

\* deleteTask(taskId), from the button of a card
DeleteTask(taskId) ==
    /\ ~tview.loading
    /\ taskId \in Ids(tview.tasks)
    /\ \E res \in {"ok", "error"} :
        IF Throws(res = "error")
        THEN /\ lastOp' = [NoOp EXCEPT !.op = "deleteTask", !.actor = Me,
                            !.target = taskId, !.trigger = "error",
                            !.toasts = {"delete_task_failed"}]
             /\ UNCHANGED <<tasks, tview, nview, aview>>
        ELSE /\ tasks' = IF res = "ok" THEN TasksDelete(Me, tasks, taskId) ELSE tasks
             /\ tview' = [tview EXCEPT !.tasks = SelectSeq(@, LAMBDA x : x.id # taskId)]
             /\ lastOp' = [NoOp EXCEPT !.op = "deleteTask", !.actor = Me,
                            !.target = taskId, !.trigger = res,
                            !.toasts = {"task_deleted"}, !.viewUpdated = TRUE]
    /\ UNCHANGED <<profiles, friendships, messages, notifications, projects, nextTaskId,
                   fview, cview, pview, nview, aview, inflight, authVars>>

(***************************************************************************)
(* Table messages and its policies                                         *)
(***************************************************************************)
MessageRow(id, s, r) ==
    [id |-> id, sender_id |-> s, receiver_id |-> r, content |-> "text", read |-> FALSE]

\* mutant: the table has no CHECK
MessagesCheckAbsent(row) == TRUE

\* CHECK(sender_id != receiver_id)
MessagesCheck(row) == row.sender_id # row.receiver_id

\* policy "Users can send messages"
MessagesInsertPolicy(uid, row) == row.sender_id = uid

\* policy "Users can update messages they received"
MessagesUpdatePolicy(uid, row) == row.receiver_id = uid

\* sender_id, receiver_id REFERENCES profiles(id)
MessagesForeignKeys(row) ==
    row.sender_id \in RegisteredUsers /\ row.receiver_id \in RegisteredUsers

MessagesAccepts(uid, row) ==
    /\ MessagesInsertPolicy(uid, row)
    /\ MessagesCheck(row)
    /\ MessagesForeignKeys(row)

\* insert({ sender_id, receiver_id, content }): the table afterwards and the
\* error the call returns
MessagesInsert(uid, T, s, r) ==
    LET row == MessageRow(FreshId(T), s, r)
    IN  IF MessagesAccepts(uid, row)
        THEN [table |-> T \cup {row}, error |-> "none", id |-> row.id]
        ELSE [table |-> T, id |-> 0,
              error |-> IF ~MessagesCheck(row) THEN "check_violation"
                        ELSE IF ~MessagesForeignKeys(row) THEN "foreign_key_violation"
                        ELSE "policy_violation"]

\* update({ read: true }).eq('sender_id', s).eq('receiver_id', uid).eq('read', false)
\* mutant: the filters on sender and receiver exchanged, without the policy
MessagesMarkReadSent(uid, T, s) ==
    {IF r.sender_id = uid /\ r.receiver_id = s /\ ~r.read
     THEN [r EXCEPT !.read = TRUE] ELSE r : r \in T}

\* update({ read: true }).eq('sender_id', s).eq('receiver_id', uid).eq('read', false)
MessagesMarkRead(uid, T, s) ==
    {IF r.sender_id = s /\ r.receiver_id = uid /\ ~r.read /\ MessagesUpdatePolicy(uid, r)
     THEN [r EXCEPT !.read = TRUE] ELSE r : r \in T}

\* messages ever sent
MaxMessages == 3

(***************************************************************************)
(* Chat page                                                               *)
(***************************************************************************)
\* Chat.fetchFriends: the accepted rows of uid, each mapped to the other end
ChatFetchFriendsResult(uid) ==
    LET rows == {r \in friendships :
                    /\ FriendshipsSelectPolicy(uid, r)
                    /\ (r.requester_id = uid \/ r.addressee_id = uid)
                    /\ r.status = "accepted"}
    IN  SeqMap(LAMBDA f : IF f.requester_id = uid
                          THEN JoinProfile(uid, f.addressee_id)
                          ELSE JoinProfile(uid, f.requester_id),
               RowSeq(rows))

\* fetchMessages: the rows between uid and friend, oldest first
FetchMessagesResult(uid, friend) ==
    RowSeq({m \in messages :
                /\ MessagesSelectPolicy(uid, m)
                /\ \/ (m.sender_id = uid /\ m.receiver_id = friend)
                   \/ (m.sender_id = friend /\ m.receiver_id = uid)})

\* the Chat page mounts
ChatMount ==
    /\ cview' = [ChatViewInit EXCEPT !.fetch.friends = "pending"]
    /\ UnmountOthers("chat")
    /\ UNCHANGED <<storeVars, authVars, lastOp>>

ChatFetchFriends ==
    /\ cview.fetch.friends = "pending"
    /\ \E res \in {"ok", "error"} :
        cview' = [cview EXCEPT
            !.friends = IF res = "ok" THEN ChatFetchFriendsResult(Me) ELSE @,
            !.loading = FALSE,
            !.fetch.friends = res]
    /\ UNCHANGED <<storeVars, fview, pview, tview, nview, aview, inflight, authVars, lastOp>>

\* a friend of the list is clicked: the effect on [selectedFriend] starts
\* fetchMessages and markMessagesAsRead
SelectFriend(f) ==
    /\ ~cview.loading
    /\ f \in Range(cview.friends)
    /\ f # cview.selectedFriend
    /\ cview' = [cview EXCEPT !.selectedFriend = f,
                              !.fetch.messages = "pending", !.fetch.read = "pending"]
    /\ UNCHANGED <<storeVars, fview, pview, tview, nview, aview, inflight, authVars, lastOp>>

FetchMessages ==
    /\ cview.fetch.messages = "pending"
    /\ \E res \in {"ok", "error"} :
        cview' = [cview EXCEPT
            !.messages = IF res = "ok"
                         THEN FetchMessagesResult(Me, cview.selectedFriend.id) ELSE @,
            !.fetch.messages = res]
    /\ UNCHANGED <<storeVars, fview, pview, tview, nview, aview, inflight, authVars, lastOp>>

MarkMessagesAsRead ==
    /\ cview.fetch.read = "pending"
    /\ \E res \in {"ok", "error"} :
        /\ messages' = IF res = "ok"
                       THEN MessagesMarkRead(Me, messages, cview.selectedFriend.id)
                       ELSE messages
        /\ cview' = [cview EXCEPT !.fetch.read = res]
    /\ UNCHANGED <<profiles, friendships, notifications, projects, tasks, nextTaskId,
                   fview, pview, tview, nview, aview, inflight, authVars, lastOp>>

\* sendMessage, from the form of the conversation
SendMessage ==
    /\ cview.selectedFriend # NoJoin /\ ~cview.sending
    /\ Cardinality(messages) < MaxMessages
    /\ \E trig \in {"ok", "error"}, notif \in CallOutcomes :
        LET receiver == cview.selectedFriend.id
            ins == MessagesInsert(Me, messages, Me, receiver)
            committed == trig = "ok" /\ ins.error = "none"
        IN  IF Throws(~committed)
            THEN /\ notif = "ok"
                 /\ lastOp' = [NoOp EXCEPT !.op = "sendMessage", !.actor = Me,
                                !.target = receiver, !.trigger = "error",
                                !.toasts = {"send_message_failed"}]
                 /\ UNCHANGED <<messages, notifications, cview, nview, aview>>
            ELSE /\ messages' = IF committed THEN ins.table ELSE messages
                 /\ cview' = [cview EXCEPT !.messages =
                        Append(@, MessageRow(ins.id, Me, receiver))]
                 /\ notifications' =
                        IF notif = "ok"
                        THEN NotificationsInsert(Me, notifications, receiver, "chat")
                        ELSE notifications
                 /\ lastOp' = [NoOp EXCEPT !.op = "sendMessage", !.actor = Me,
                                !.target = receiver, !.arg = ins.id,
                                !.trigger = IF committed THEN "ok" ELSE "error",
                                !.notif = notif,
                                !.toasts = IF notif = "throw" THEN {"send_message_failed"}
                                           ELSE {},
                                !.viewUpdated = TRUE]
    /\ UNCHANGED <<profiles, friendships, projects, tasks, nextTaskId,
                   fview, pview, tview, nview, aview, inflight, authVars>>

\* the receivers without the creator: team_members.filter(id => id !== uid)
ProjectReceiversTeamOnly(project, uid) ==
    SelectSeq(project.team_members, LAMBDA id : id # uid)

\* [creator_id, ...team_members].filter(id => id !== uid)
ProjectReceivers(project, uid) ==
    SelectSeq(<<project.creator_id>> \o project.team_members, LAMBDA id : id # uid)

\* the inserts of sendProjectMessage, one receiver after the other, the
\* failAt-th call returning an error (0: none does); a row the store rejects
\* ends the loop as well
RECURSIVE SendToAll(_, _, _, _, _)
SendToAll(uid, T, receivers, i, failAt) ==
    IF i > Len(receivers) THEN [table |-> T, sent |-> i - 1, error |-> "none"]
    ELSE LET ins == MessagesInsert(uid, T, uid, receivers[i])
         IN  IF i = failAt THEN [table |-> T, sent |-> i - 1, error |-> "transport"]
             ELSE IF ins.error # "none"
             THEN [table |-> T, sent |-> i - 1, error |-> ins.error]
             ELSE SendToAll(uid, ins.table, receivers, i + 1, failAt)

\* the fetchProjectMessages that sendProjectMessage started returns
ProjectMessagesFetched ==
    /\ pview.fetch.messages = "pending"
    /\ \E res \in {"ok", "error"} :
        pview' = [pview EXCEPT
            !.projectMessages = FetchProjectMessages(pview, res),
            !.fetch.messages = "idle"]
    /\ UNCHANGED <<storeVars, fview, cview, tview, nview, aview, inflight, authVars, lastOp>>

\* sendProjectMessage, from the team chat form of the project detail view
SendProjectMessage ==
    /\ pview.showProjectDetail /\ pview.selectedProject # NoProject
    /\ LET receivers == ProjectReceivers(pview.selectedProject, Me)
       IN  /\ Cardinality(messages) + Len(receivers) <= MaxMessages
           /\ \E failAt \in 0..Len(receivers) :
                LET res == SendToAll(Me, messages, receivers, 1, failAt)
                IN  /\ messages' = res.table
                    /\ pview' = IF res.error = "none"
                                THEN [pview EXCEPT !.fetch.messages = "pending"]
                                ELSE pview
                    /\ lastOp' = [NoOp EXCEPT !.op = "sendProjectMessage", !.actor = Me,
                                    !.target = Range(receivers), !.arg = res.sent,
                                    !.trigger = IF res.error = "none" THEN "ok" ELSE "error",
                                    !.toasts = IF res.error = "none" THEN {"message_sent_to_team"}
                                               ELSE {"send_message_failed"}]
    /\ UNCHANGED <<profiles, friendships, notifications, projects, tasks, nextTaskId,
                   fview, cview, tview, nview, aview, inflight, authVars>>

(***************************************************************************)
(* Messages sent from the other users' browsers, and the store's insert    *)
(* endpoint used directly                                                  *)
(***************************************************************************)
\* sendMessage in v's Chat page, to a friend of its list
RemoteSendMessage(v, x) ==
    /\ v \in Others
    /\ x \in Ids(ChatFetchFriendsResult(v))
    /\ Cardinality(messages) < MaxMessages
    /\ \E notif \in {"ok", "error"} :
        LET ins == MessagesInsert(v, messages, v, x)
        IN  /\ ins.error = "none"
            /\ messages' = ins.table
            /\ notifications' =
                    IF notif = "ok"
                    THEN NotificationsInsert(v, notifications, x, "chat")
                    ELSE notifications
            /\ lastOp' = [NoOp EXCEPT !.op = "sendMessage", !.actor = v,
                            !.target = x, !.arg = ins.id, !.trigger = "ok",
                            !.notif = notif, !.viewUpdated = TRUE]
    /\ UNCHANGED <<profiles, friendships, projects, tasks, nextTaskId, viewVars, authVars>>

\* sendProjectMessage in v's project detail view of project p
RemoteSendProjectMessage(v, p) ==
    /\ v \in Others
    /\ p \in projects /\ ProjectsSelectPolicy(v, p)
    /\ LET receivers == ProjectReceivers(p, v)
           res == SendToAll(v, messages, receivers, 1, 0)
       IN  /\ Cardinality(messages) + Len(receivers) <= MaxMessages
           /\ res.error = "none"
           /\ messages' = res.table
           /\ lastOp' = [NoOp EXCEPT !.op = "sendProjectMessage", !.actor = v,
                            !.target = Range(receivers), !.arg = res.sent,
                            !.trigger = "ok", !.toasts = {"message_sent_to_team"}]
    /\ UNCHANGED <<profiles, friendships, notifications, projects, tasks, nextTaskId,
                   viewVars, authVars>>

\* a signed-in user posts a row to the messages table
InsertMessage(v, x) ==
    /\ v \in RegisteredUsers /\ x \in RegisteredUsers
    /\ Cardinality(messages) < MaxMessages
    /\ LET ins == MessagesInsert(v, messages, v, x)
       IN  /\ messages' = ins.table
           /\ lastOp' = [NoOp EXCEPT !.op = "insertMessage", !.actor = v, !.target = x,
                            !.arg = ins.id,
                            !.trigger = IF ins.error = "none" THEN "ok" ELSE ins.error]
    /\ UNCHANGED <<profiles, friendships, notifications, projects, tasks, nextTaskId,
                   viewVars, authVars>>

(***************************************************************************)
(* Notifications page                                                      *)
(***************************************************************************)
\* fetchNotifications: .eq('user_id', uid), newest first
FetchNotificationsResult(uid) ==
    RowSeqDesc({r \in notifications : NotificationsSelectPolicy(uid, r) /\ r.user_id = uid})

\* the Notifications page mounts
NotificationsMount ==
    /\ nview' = [NotificationsViewInit EXCEPT !.fetch = "pending"]
    /\ UnmountOthers("notifications")
    /\ UNCHANGED <<storeVars, authVars, lastOp>>

FetchNotifications ==
    /\ nview.fetch = "pending"
    /\ \E res \in {"ok", "error"} :
        nview' = [nview EXCEPT
            !.notifications = IF res = "ok" THEN FetchNotificationsResult(Me) ELSE @,
            !.loading = FALSE,
            !.fetch = "idle"]
    /\ UNCHANGED <<storeVars, fview, cview, pview, tview, aview, inflight, authVars, lastOp>>

\* markAsRead(notificationId), from the button of an unread notification
MarkAsRead(notificationId) ==
    /\ ~nview.loading
    /\ \E i \in 1..Len(nview.notifications), res \in {"ok", "error"} :
        /\ nview.notifications[i].id = notificationId
        /\ ~nview.notifications[i].read
        /\ IF Throws(res = "error")
           THEN /\ lastOp' = [NoOp EXCEPT !.op = "markAsRead", !.actor = Me,
                               !.target = notificationId, !.trigger = "error",
                               !.toasts = {"mark_read_failed"}]
                /\ UNCHANGED <<notifications, nview, aview>>
           ELSE /\ notifications' =
                    IF res = "ok"
                    THEN NotificationsMarkRead(Me, notifications, notificationId)
                    ELSE notifications
                /\ nview' = [nview EXCEPT !.notifications =
                        SeqMap(LAMBDA x : IF x.id = notificationId
                                          THEN [x EXCEPT !.read = TRUE] ELSE x, @)]
                /\ lastOp' = [NoOp EXCEPT !.op = "markAsRead", !.actor = Me,
                               !.target = notificationId, !.trigger = res,
                               !.viewUpdated = TRUE]
    /\ UNCHANGED <<profiles, friendships, messages, projects, tasks, nextTaskId,
                   fview, cview, pview, tview, aview, inflight, authVars>>

\* markAllAsRead(), from the button shown while the list has an unread row
MarkAllAsRead ==
    /\ ~nview.loading
    /\ \E i \in 1..Len(nview.notifications) : ~nview.notifications[i].read
    /\ \E res \in {"ok", "error"} :
        IF Throws(res = "error")
        THEN /\ lastOp' = [NoOp EXCEPT !.op = "markAllAsRead", !.actor = Me,
                            !.trigger = "error", !.toasts = {"mark_all_read_failed"}]
             /\ UNCHANGED <<notifications, nview, aview>>
        ELSE /\ notifications' = IF res = "ok"
                               THEN NotificationsMarkAllRead(Me, notifications, Me)
                               ELSE notifications
             /\ nview' = [nview EXCEPT !.notifications =
                    SeqMap(LAMBDA x : [x EXCEPT !.read = TRUE], @)]
             /\ lastOp' = [NoOp EXCEPT !.op = "markAllAsRead", !.actor = Me,
                            !.trigger = res, !.toasts = {"all_marked_read"},
                            !.viewUpdated = TRUE]
    /\ UNCHANGED <<profiles, friendships, messages, projects, tasks, nextTaskId,
                   fview, cview, pview, tview, aview, inflight, authVars>>

\* deleteNotification(notificationId), from the button of a notification
DeleteNotification(notificationId) ==
    /\ ~nview.loading
    /\ notificationId \in Ids(nview.notifications)
    /\ \E res \in {"ok", "error"} :
        IF Throws(res = "error")
        THEN /\ lastOp' = [NoOp EXCEPT !.op = "deleteNotification", !.actor = Me,
                            !.target = notificationId, !.trigger = "error",
                            !.toasts = {"delete_notification_failed"}]
             /\ UNCHANGED <<notifications, nview, aview>>
        ELSE /\ notifications' =
                    IF res = "ok"
                    THEN NotificationsDelete(Me, notifications, notificationId)
                    ELSE notifications
             /\ nview' = [nview EXCEPT !.notifications =
                    SelectSeq(@, LAMBDA x : x.id # notificationId)]
             /\ lastOp' = [NoOp EXCEPT !.op = "deleteNotification", !.actor = Me,
                            !.target = notificationId, !.trigger = res,
                            !.toasts = {"notification_deleted"}, !.viewUpdated = TRUE]
    /\ UNCHANGED <<profiles, friendships, messages, projects, tasks, nextTaskId,
                   fview, cview, pview, tview, aview, inflight, authVars>>

\* another user's browser sends the update of markAsRead for a row id
RemoteMarkAsRead(v, notificationId) ==
    /\ v \in Others
    /\ notifications' = NotificationsMarkRead(v, notifications, notificationId)
    /\ lastOp' = [NoOp EXCEPT !.op = "markAsRead", !.actor = v,
                    !.target = notificationId, !.trigger = "ok", !.viewUpdated = TRUE]
    /\ UNCHANGED <<profiles, friendships, messages, projects, tasks, nextTaskId,
                   viewVars, authVars>>

\* another user's browser sends the delete of deleteNotification for a row id
RemoteDeleteNotification(v, notificationId) ==
    /\ v \in Others
    /\ notifications' = NotificationsDelete(v, notifications, notificationId)
    /\ lastOp' = [NoOp EXCEPT !.op = "deleteNotification", !.actor = v,
                    !.target = notificationId, !.trigger = "ok",
                    !.toasts = {"notification_deleted"}, !.viewUpdated = TRUE]
    /\ UNCHANGED <<profiles, friendships, messages, projects, tasks, nextTaskId,
                   viewVars, authVars>>

(***************************************************************************)
(* Activity page.  Times are whole hours; a calendar day is the hours      *)
(* d * DayHours .. d * DayHours + DayHours - 1 of the browser's time zone. *)
(***************************************************************************)
\* 1000 * 60 * 60 * 24 milliseconds
DayHours == 24

\* diffInDays <= 7 of isUpcoming
UpcomingDays == 7

\* diffInDays <= 7 and diffInDays >= -7 of formatDate
LabelDays == 7

\* a task of the list, or a calendar event with its date as deadline
ActivityItem(id, kind, status, deadline) ==
    [id |-> id, kind |-> kind, status |-> status, deadline |-> deadline]

\* mutant: a deadline that is now counts as upcoming
isUpcomingFromNow(date, now) ==
    date - now >= 0 /\ date - now <= UpcomingDays * DayHours

\* diffInDays > 0 && diffInDays <= 7, diffInDays being (date - now) / one day
isUpcoming(date, now) ==
    date - now > 0 /\ date - now <= UpcomingDays * DayHours

isOverdue(date, now) == date < now

\* the text formatDate returns: a word, a count of days, or the date
DateLabel(kind, n) == [kind |-> kind, n |-> n]

formatDate(date, now) ==
    LET diffInDays == (date - now) \div DayHours
    IN  IF diffInDays = 0 THEN DateLabel("Today", 0)
        ELSE IF diffInDays = 1 THEN DateLabel("Tomorrow", 0)
        ELSE IF diffInDays = -1 THEN DateLabel("Yesterday", 0)
        ELSE IF diffInDays > 1 /\ diffInDays <= LabelDays THEN DateLabel("In days", diffInDays)
        ELSE IF diffInDays < -1 /\ diffInDays >= -LabelDays
            THEN DateLabel("days ago", -diffInDays)
        ELSE DateLabel("date", date \div DayHours)

completedTasks(view) == SelectSeq(view.tasks, LAMBDA task : task.status = "completed")
currentTasks(view) == SelectSeq(view.tasks, LAMBDA task : task.status = "in_progress")
upcomingTasks(view, now) ==
    SelectSeq(view.tasks, LAMBDA task :
        task.status = "pending" /\ isUpcoming(task.deadline, now))
upcomingEvents(view, now) ==
    SelectSeq(view.events, LAMBDA event : isUpcoming(event.deadline, now))

getTabContent(view, now) ==
    IF view.activeTab = "completed" THEN completedTasks(view)
    ELSE IF view.activeTab = "current" THEN currentTasks(view)
    ELSE upcomingTasks(view, now)
         \o SeqMap(LAMBDA event : [event EXCEPT !.status = "pending"],
                   upcomingEvents(view, now))

\* the colours of a row: completed (green), overdue (red) or neither
RowStyle(item, now) ==
    IF item.status = "completed" THEN "completed"
    ELSE IF isOverdue(item.deadline, now) /\ item.status # "completed" THEN "overdue"
    ELSE "normal"

\* the component renders with the clock reading now
Rendered(view, now) ==
    [view EXCEPT
        !.now = now,
        !.rows = SeqMap(LAMBDA item : [id |-> item.id, style |-> RowStyle(item, now),
                                       label |-> formatDate(item.deadline, now)],
                        getTabContent(view, now))]

\* the day and the hours of the day at which the page is looked at
NowDay == 10
HoursOfDay == {0, 9, 23}
NowTimes == {NowDay * DayHours + h : h \in HoursOfDay}

\* the deadlines of the items: up to DeadlineDays days before and after
DeadlineDays == 10
Deadlines ==
    {d * DayHours + h : d \in (NowDay - DeadlineDays)..(NowDay + DeadlineDays),
                        h \in HoursOfDay}

\* the page renders again later
ActivityRender(now) ==
    /\ ~aview.loading
    /\ now \in NowTimes /\ now >= aview.now
    /\ aview' = Rendered(aview, now)
    /\ UNCHANGED <<storeVars, fview, cview, pview, tview, nview, inflight, authVars, lastOp>>

\* a tab button is clicked
SetActiveTab(tab, now) ==
    /\ ~aview.loading
    /\ tab \in {"completed", "current", "upcoming"} /\ tab # aview.activeTab
    /\ now \in NowTimes /\ now >= aview.now
    /\ aview' = Rendered([aview EXCEPT !.activeTab = tab], now)
    /\ UNCHANGED <<storeVars, fview, cview, pview, tview, nview, inflight, authVars, lastOp>>

(***************************************************************************)
(* Navigation with the fetches of the page left still in flight            *)
(***************************************************************************)
Pages == {"friends", "chat", "projects", "todo", "notifications"}

\* fetches in flight that belong to a page no longer shown
MaxLateFetches == 2

\* the page's component is mounted (its effect has run)
Mounted(page) ==
    CASE page = "friends" -> fview # FriendsViewInit
      [] page = "chat" -> cview # ChatViewInit
      [] page = "projects" -> pview # ProjectsViewInit
      [] page = "todo" -> tview # TodoViewInit
      [] page = "notifications" -> nview # NotificationsViewInit

\* the fetches of the mounted page that have not returned, each with the
\* page, the function and the argument of its query
FetchCall(page, fetch, arg) ==
    [pc |-> "fetching", page |-> page, fetch |-> fetch, arg |-> arg, detached |-> FALSE]

PendingFetches ==
    (IF fview.fetch.friends = "pending" THEN <<FetchCall("friends", "fetchFriends", Me)>> ELSE <<>>)
    \o (IF fview.fetch.requests = "pending"
        THEN <<FetchCall("friends", "fetchFriendRequests", Me)>> ELSE <<>>)
    \o (IF fview.fetch.sent = "pending"
        THEN <<FetchCall("friends", "fetchSentRequests", Me)>> ELSE <<>>)
    \o (IF cview.fetch.friends = "pending" THEN <<FetchCall("chat", "fetchFriends", Me)>> ELSE <<>>)
    \o (IF cview.fetch.messages = "pending"
        THEN <<FetchCall("chat", "fetchMessages", cview.selectedFriend.id)>> ELSE <<>>)
    \o (IF pview.fetch.projects = "pending"
        THEN <<FetchCall("projects", "fetchProjects", Me)>> ELSE <<>>)
    \o (IF tview.fetch = "pending" THEN <<FetchCall("todo", "fetchTasks", Me)>> ELSE <<>>)
    \o (IF nview.fetch = "pending"
        THEN <<FetchCall("notifications", "fetchNotifications", Me)>> ELSE <<>>)

\* the link of a page is clicked: the page shown is unmounted with its
\* fetches still in flight, and the new page mounts and runs its effect
Navigate(page) ==
    /\ page \in Pages /\ ~Mounted(page)
    /\ Len(inflight) + Len(PendingFetches) <= MaxLateFetches
    /\ fview' = IF page = "friends" THEN [FriendsViewInit EXCEPT !.fetch = FetchAll]
                ELSE FriendsViewInit
    /\ cview' = IF page = "chat" THEN [ChatViewInit EXCEPT !.fetch.friends = "pending"]
                ELSE ChatViewInit
    /\ pview' = IF page = "projects" THEN [ProjectsViewInit EXCEPT !.fetch.projects = "pending"]
                ELSE ProjectsViewInit
    /\ tview' = IF page = "todo" THEN [TodoViewInit EXCEPT !.fetch = "pending"]
                ELSE TodoViewInit
    /\ nview' = IF page = "notifications" THEN [NotificationsViewInit EXCEPT !.fetch = "pending"]
                ELSE NotificationsViewInit
    /\ aview' = ActivityViewInit
    /\ inflight' = [k \in 1..(Len(inflight) + Len(PendingFetches)) |->
                        [(inflight \o PendingFetches)[k] EXCEPT !.detached = TRUE]]
    /\ UNCHANGED <<storeVars, authVars, lastOp>>

\* mutant: a state setter called after the unmount still sets the state
SetStateAppliesAlways(call) == TRUE

\* a state setter of a component that was unmounted sets nothing
SetStateApplies(call) == ~call.detached

\* what the setters of a fetch set when it returns
FetchApplied(call, res) ==
    /\ fview' =
        IF call.page # "friends" \/ res # "ok" THEN
            IF call.page = "friends" /\ call.fetch = "fetchFriends"
            THEN [fview EXCEPT !.loading = FALSE] ELSE fview
        ELSE IF call.fetch = "fetchFriends"
            THEN [fview EXCEPT !.friends = FetchFriendsResult(Me), !.loading = FALSE]
        ELSE IF call.fetch = "fetchFriendRequests"
            THEN [fview EXCEPT !.friendRequests = FetchFriendRequestsResult(Me)]
        ELSE [fview EXCEPT !.sentRequests = FetchSentRequestsResult(Me)]
    /\ cview' =
        IF call.page # "chat" \/ res # "ok" THEN
            IF call.page = "chat" /\ call.fetch = "fetchFriends"
            THEN [cview EXCEPT !.loading = FALSE] ELSE cview
        ELSE IF call.fetch = "fetchFriends"
            THEN [cview EXCEPT !.friends = ChatFetchFriendsResult(Me), !.loading = FALSE]
        ELSE [cview EXCEPT !.messages = FetchMessagesResult(Me, call.arg)]
    /\ pview' =
        IF call.page # "projects" THEN pview
        ELSE [pview EXCEPT !.projects = IF res = "ok" THEN FetchProjectsResult(Me) ELSE @,
                           !.loading = FALSE]
    /\ tview' =
        IF call.page # "todo" THEN tview
        ELSE [tview EXCEPT !.tasks = IF res = "ok" THEN FetchTasksResult(Me) ELSE @,
                           !.loading = FALSE]
    /\ nview' =
        IF call.page # "notifications" THEN nview
        ELSE [nview EXCEPT
                !.notifications = IF res = "ok" THEN FetchNotificationsResult(Me) ELSE @,
                !.loading = FALSE]

\* a fetch whose page was left returns
LateFetchReturns(k) ==
    /\ k \in 1..Len(inflight)
    /\ inflight[k].pc = "fetching"
    /\ \E res \in {"ok", "error"} :
        /\ IF SetStateApplies(inflight[k])
           THEN FetchApplied(inflight[k], res)
           ELSE UNCHANGED <<fview, cview, pview, tview, nview>>
        /\ lastOp' = [NoOp EXCEPT !.op = "fetchReturned", !.actor = Me,
                        !.target = inflight[k].page, !.arg = inflight[k].fetch,
                        !.trigger = res,
                        !.toasts = IF res = "error" THEN {"fetch_failed"} ELSE {},
                        !.viewUpdated = SetStateApplies(inflight[k])]
    /\ inflight' = RemoveAt(inflight, k)
    /\ UNCHANGED <<storeVars, authVars, aview>>

(***************************************************************************)
(* Initial values of the state each specification leaves alone             *)
(***************************************************************************)
InitViewsIdle ==
    /\ fview = FriendsViewInit
    /\ cview = ChatViewInit
    /\ pview = ProjectsViewInit
    /\ tview = TodoViewInit
    /\ nview = NotificationsViewInit
    /\ aview = ActivityViewInit
    /\ inflight = <<>>

(***************************************************************************)
(* SpecFriends: the Friends page of every user over one store              *)
(***************************************************************************)
\* the users registered in SpecFriends
FriendsUsers == {"u1", "u2"}

InitFriends ==
    /\ profiles = SeqOfUsers(FriendsUsers)
    /\ friendships = {} /\ messages = {} /\ notifications = {}
    /\ projects = {} /\ tasks = {} /\ nextTaskId = 1
    /\ InitViewsIdle
    /\ InitAuthIdle
    /\ lastOp = NoOp

\* UNIQUE(requester_id, addressee_id) and the CHECK leave room for this many rows
MaxFriendshipId == Cardinality(Users) * (Cardinality(Users) - 1)

NextFriends ==
    \/ FriendsMount
    \/ FetchFriends
    \/ FetchFriendRequests
    \/ FetchSentRequests
    \/ SearchUsers
    \/ \E v \in Users : SendFriendRequest(v)
    \/ \E rid \in 1..MaxFriendshipId, st \in {"accepted", "declined"} :
          RespondToFriendRequest(rid, st)
    \/ \E rid \in 1..MaxFriendshipId : CancelFriendRequest(rid)
    \/ \E f \in Users : RemoveFriend(f)
    \/ \E v, x \in Users : RemoteSendFriendRequest(v, x)
    \/ \E v \in Users, rid \in 1..MaxFriendshipId, st \in {"accepted", "declined"} :
          RemoteRespondToFriendRequest(v, rid, st)
    \/ \E v \in Users, rid \in 1..MaxFriendshipId : RemoteCancelFriendRequest(v, rid)
    \/ \E v, f \in Users : RemoteRemoveFriend(v, f)

SpecFriends == InitFriends /\ [][NextFriends]_vars

(***************************************************************************)
(* SpecAuth: the AuthProvider of one browser, the provider's events and    *)
(* the profiles table                                                      *)
(***************************************************************************)
InitAuth ==
    /\ profiles = <<>>
    /\ friendships = {} /\ messages = {} /\ notifications = {}
    /\ projects = {} /\ tasks = {} /\ nextTaskId = 1
    /\ InitViewsIdle
    /\ auth = AuthInit
    /\ authTasks = <<>>
    /\ \E s \in Identities \cup {NoUser} : provider = ProviderInit(s)
    /\ lastOp = NoOp

NextAuth ==
    \/ ProviderInitialSession
    \/ \E i \in Identities : ProviderSignedIn(i)
    \/ ProviderSignedOut
    \/ ProviderTokenRefreshed
    \/ \E k \in 1..MaxAuthTasks : FetchUserProfileResume(k)
    \/ \E k \in 1..MaxAuthTasks : CreateProfileResume(k)
    \/ RefreshProfile
    \/ SignOut

SpecAuth == InitAuth /\ [][NextAuth]_vars

(***************************************************************************)
(* SpecTasks: the Projects page and the Todo page of Me over the store.     *)
(* The project exists: one of the two users created it with the other, a   *)
(* friend, as team member, so Me is its creator or its team member.  Only  *)
(* Me's browser acts, and it leaves the detail view by leaving the page.   *)
(***************************************************************************)
InitProject ==
    /\ profiles = SeqOfUsers(FriendsUsers)
    /\ \E c \in FriendsUsers :
        LET o == CHOOSE x \in FriendsUsers : x # c
        IN  /\ friendships = {FriendshipRow(1, c, o, "accepted")}
            /\ projects = {ProjectRow(1, c, <<o>>, 0)}
    /\ messages = {} /\ notifications = {}
    /\ tasks = {} /\ nextTaskId = 1
    /\ InitViewsIdle
    /\ InitAuthIdle
    /\ lastOp = NoOp

ProjectPageNext ==
    \/ ProjectsMount
    \/ FetchProjects
    \/ \E p \in Range(pview.projects) : OpenProject(p)
    \/ ProjectDetailFetched

NextTasks ==
    \/ ProjectPageNext
    \/ \E a \in Users : CreateTask(a)
    \/ \E id \in 1..MaxTasks : Len(inflight) < MaxInflight /\ UpdateTaskStatus(id)
    \/ \E k \in 1..MaxInflight : UpdateTaskStatusTaskDone(k)
    \/ \E k \in 1..MaxInflight : UpdateTaskStatusProjectDone(k)
    \/ TodoMount
    \/ FetchTasks
    \/ AddTask
    \/ \E id \in 1..MaxTasks : TodoUpdateTaskStatus(id)
    \/ \E id \in 1..MaxTasks : DeleteTask(id)

SpecTasks == InitProject /\ [][NextTasks]_vars

(***************************************************************************)
(* SpecChat: the Chat page and the team chat of the project detail view of *)
(* Me, and the other user, over one store                                  *)
(***************************************************************************)
NextChat ==
    \/ ProjectPageNext
    \/ CloseProject
    \/ ChatMount
    \/ ChatFetchFriends
    \/ \E f \in Range(cview.friends) : SelectFriend(f)
    \/ FetchMessages
    \/ MarkMessagesAsRead
    \/ SendMessage
    \/ SendProjectMessage
    \/ ProjectMessagesFetched
    \/ \E v, x \in Users : RemoteSendMessage(v, x)
    \/ \E v \in Users, p \in projects : RemoteSendProjectMessage(v, p)
    \/ \E v, x \in Users : InsertMessage(v, x)

SpecChat == InitProject /\ [][NextChat]_vars

(***************************************************************************)
(* SpecProgress: updateTaskStatus of the project detail view applied to    *)
(* every task list of up to MaxListLen rows, every row id and every status *)
(***************************************************************************)
MaxListLen == 3

\* the task lists of the project, newest first, as fetchProjectTasks sets them
TaskLists ==
    UNION {{[i \in 1..n |-> TaskRow(n + 1 - i, f[i], Me, 1, Me)] :
                f \in [1..n -> TaskStatuses]} : n \in 0..MaxListLen}

InitProgress ==
    /\ profiles = SeqOfUsers(FriendsUsers)
    /\ friendships = {FriendshipRow(1, Me, "u2", "accepted")}
    /\ projects = {ProjectRow(1, Me, <<"u2">>, 0)}
    /\ messages = {} /\ notifications = {}
    /\ \E list \in TaskLists :
        /\ tasks = Range(list)
        /\ nextTaskId = Len(list) + 1
        /\ pview = [ProjectsViewInit EXCEPT
                        !.loading = FALSE,
                        !.projects = <<ProjectRow(1, Me, <<"u2">>, 0)>>,
                        !.selectedProject = ProjectRow(1, Me, <<"u2">>, 0),
                        !.showProjectDetail = TRUE,
                        !.projectTasks = list,
                        !.teamMembers = <<ProfileRow("u2")>>]
    /\ fview = FriendsViewInit /\ cview = ChatViewInit /\ tview = TodoViewInit
    /\ nview = NotificationsViewInit
    /\ aview = ActivityViewInit
    /\ inflight = <<>>
    /\ InitAuthIdle
    /\ lastOp = NoOp

NextProgress ==
    \/ \E id \in 1..MaxListLen, st \in TaskStatuses :
          Len(inflight) < MaxInflight /\ CallUpdateTaskStatus(id, st)
    \/ \E k \in 1..MaxInflight : UpdateTaskStatusTaskDone(k)
    \/ \E k \in 1..MaxInflight : UpdateTaskStatusProjectDone(k)

SpecProgress == InitProgress /\ [][NextProgress]_vars

(***************************************************************************)
(* SpecNotifications: the Notifications page of Me over the store, while   *)
(* the other user, a friend, sends messages and marks and deletes          *)
(* notifications by id                                                     *)
(***************************************************************************)
MaxNotificationId == MaxMessages

NextNotifications ==
    \/ NotificationsMount
    \/ FetchNotifications
    \/ \E id \in 1..MaxNotificationId : MarkAsRead(id)
    \/ MarkAllAsRead
    \/ \E id \in 1..MaxNotificationId : DeleteNotification(id)
    \/ \E v, x \in Users : RemoteSendMessage(v, x)
    \/ \E v \in Users, id \in 1..MaxNotificationId : RemoteMarkAsRead(v, id)
    \/ \E v \in Users, id \in 1..MaxNotificationId : RemoteDeleteNotification(v, id)

SpecNotifications == InitProject /\ [][NextNotifications]_vars

(***************************************************************************)
(* SpecUnmount: Me moves between the pages while their fetches are in      *)
(* flight                                                                  *)
(***************************************************************************)
NextUnmount ==
    \/ \E page \in Pages : Navigate(page)
    \/ FetchFriends
    \/ FetchFriendRequests
    \/ FetchSentRequests
    \/ ChatFetchFriends
    \/ \E f \in Range(cview.friends) : SelectFriend(f)
    \/ FetchMessages
    \/ FetchProjects
    \/ FetchTasks
    \/ FetchNotifications
    \/ \E k \in 1..MaxLateFetches : LateFetchReturns(k)

SpecUnmount == InitProject /\ [][NextUnmount]_vars

(***************************************************************************)
(* SpecActivity: the Activity page with one task or one calendar event of  *)
(* any status and deadline, first rendered at the start of NowDay and then *)
(* again at later hours of the day                                         *)
(***************************************************************************)
InitActivity ==
    /\ profiles = SeqOfUsers(FriendsUsers)
    /\ friendships = {} /\ messages = {} /\ notifications = {} /\ projects = {}
    /\ \E kind \in {"task", "event"}, st \in TaskStatuses, d \in Deadlines :
        /\ kind = "event" => st = "pending"
        /\ tasks = IF kind = "task" THEN {TaskRow(1, st, Me, NoProjectId, Me)} ELSE {}
        /\ nextTaskId = IF kind = "task" THEN 2 ELSE 1
        /\ aview = Rendered(
                [ActivityViewInit EXCEPT
                    !.loading = FALSE,
                    !.tasks = IF kind = "task"
                              THEN <<ActivityItem(1, "task", st, d)>> ELSE <<>>,
                    !.events = IF kind = "event"
                               THEN <<ActivityItem(1, "event", "none", d)>> ELSE <<>>],
                NowDay * DayHours)
    /\ fview = FriendsViewInit /\ cview = ChatViewInit /\ pview = ProjectsViewInit
    /\ tview = TodoViewInit /\ nview = NotificationsViewInit
    /\ inflight = <<>>
    /\ InitAuthIdle
    /\ lastOp = NoOp

NextActivity ==
    \/ \E now \in NowTimes : ActivityRender(now)
    \/ \E tab \in {"completed", "current", "upcoming"}, now \in NowTimes :
          SetActiveTab(tab, now)

SpecActivity == InitActivity /\ [][NextActivity]_vars

(***************************************************************************)
(* Claims about the friendships table and the friend lists (SpecFriends)   *)
(***************************************************************************)
\* the profile row of user id
ProfileOf(id) == profiles[CHOOSE i \in 1..Len(profiles) : profiles[i].id = id]

\* C1: the friendships table never holds a row with requester = addressee, nor
\* two rows for the same unordered pair of users (same or opposite orientation).
C1_FriendshipPairsUnique ==
    /\ \A r \in friendships : r.requester_id # r.addressee_id
    /\ \A r1, r2 \in friendships :
            r1.id # r2.id =>
                {r1.requester_id, r1.addressee_id} # {r2.requester_id, r2.addressee_id}

\* C4: for every accepted row (a, b) the friend list fetched by a (on the
\* Friends page and on the Chat page) holds b's profile and the one fetched
\* by b holds a's profile, and nobody is listed in a friend list of their own,
\* fetched or shown.
C4_AcceptedFriendsListed ==
    /\ \A r \in friendships :
            r.status = "accepted" =>
                /\ ProfileOf(r.addressee_id) \in Range(FetchFriendsResult(r.requester_id))
                /\ ProfileOf(r.requester_id) \in Range(FetchFriendsResult(r.addressee_id))
                /\ ProfileOf(r.addressee_id) \in Range(ChatFetchFriendsResult(r.requester_id))
                /\ ProfileOf(r.requester_id) \in Range(ChatFetchFriendsResult(r.addressee_id))
    /\ \A u \in RegisteredUsers :
            u \notin Ids(FetchFriendsResult(u)) /\ u \notin Ids(ChatFetchFriendsResult(u))
    /\ Me \notin Ids(fview.friends)

\* C4 witness: an accepted row of Me exists and Me's fetchFriends has listed
\* the other user
C4_Witness ==
    \E r \in friendships :
        /\ r.status = "accepted"
        /\ r.requester_id = Me
        /\ fview.fetch.friends = "ok"
        /\ r.addressee_id \in Ids(fview.friends)

\* C5: once B has accepted the request (A, B) the friend list fetched by A
\* holds B, the one fetched by B holds A and B's list of incoming requests no
\* longer holds the row: in the store at once, and on B's page as soon as the
\* two fetches that the handler started have succeeded.
C5_AcceptListsBoth ==
    (lastOp.op = "respondToFriendRequest" /\ lastOp.trigger = "ok"
        /\ lastOp.arg = "accepted") =>
        \E r \in friendships :
            /\ r.id = lastOp.target
            /\ r.addressee_id = lastOp.actor
            /\ r.addressee_id \in Ids(FetchFriendsResult(r.requester_id))
            /\ r.requester_id \in Ids(FetchFriendsResult(r.addressee_id))
            /\ r.id \notin Ids(FetchFriendRequestsResult(r.addressee_id))
            /\ (lastOp.actor = Me /\ fview.fetch.friends = "ok"
                    /\ fview.fetch.requests = "ok") =>
                    /\ r.requester_id \in Ids(fview.friends)
                    /\ r.id \notin Ids(fview.friendRequests)

\* C5 witness: Me accepted a request and both fetches have succeeded
C5_Witness ==
    /\ lastOp.op = "respondToFriendRequest" /\ lastOp.trigger = "ok"
    /\ lastOp.arg = "accepted" /\ lastOp.actor = Me
    /\ fview.fetch.friends = "ok" /\ fview.fetch.requests = "ok"
    /\ Len(fview.friends) = 1

(***************************************************************************)
(* Claims about project progress and task notifications (SpecTasks)        *)
(***************************************************************************)
\* progress the tasks of project id stand for
ProgressOfTasks(id) ==
    LET linked == {t \in tasks : t.project_id = id}
    IN  IF linked = {} THEN 0
        ELSE (200 * Cardinality({t \in linked : t.status = "completed"}) + Cardinality(linked))
                \div (2 * Cardinality(linked))

\* C2: whenever no updateTaskStatus call is under way, the progress stored on
\* every project row equals round(100 * completed / total) over the tasks
\* linked to the project, and 0 when it has none.
C2_ProgressMatchesTasks ==
    inflight = <<>> => \A p \in projects : p.progress = ProgressOfTasks(p.id)

\* C6: a step that inserts a task row whose assignee differs from its creator
\* inserts, when the notification call returns without error, exactly one
\* notification row, addressed to the assignee and of type project, and no
\* other; a step that inserts a task assigned to its creator (project view
\* or Todo page) leaves the notifications as they are.
C6_TaskNotification ==
    [][\A t \in {x \in tasks' : x.id \notin Ids(RowSeq(tasks))} :
            IF t.assigned_to # t.user_id /\ lastOp'.notif = "ok"
            THEN /\ notifications \subseteq notifications'
                 /\ Cardinality(notifications' \ notifications) = 1
                 /\ \A n \in notifications' \ notifications :
                        n.user_id = t.assigned_to /\ n.type = "project"
            ELSE notifications' = notifications]_vars

\* C6 witness: Me created a task for the other member and the notification
\* row is in the store
C6_Witness ==
    /\ lastOp.op = "createTask" /\ lastOp.trigger = "ok" /\ lastOp.notif = "ok"
    /\ lastOp.target # lastOp.actor
    /\ \E t \in tasks : t.id = lastOp.arg /\ t.assigned_to = lastOp.target
    /\ \E n \in notifications : n.user_id = lastOp.target /\ n.type = "project"

(***************************************************************************)
(* Claims about the AuthProvider and the profiles table (SpecAuth)         *)
(***************************************************************************)
\* the identity with the given id
IdentityOf(id) == CHOOSE a \in Identities : a.id = id

\* the rows of the profiles table with the given id
ProfileRowsOf(id) == {i \in 1..Len(profiles) : profiles[i].id = id}

\* createProfile has finished for an identity without a username in its
\* metadata, its store calls were made under that identity's session and
\* none of them failed in transport
CreateProfileFinished ==
    /\ lastOp.op = "createProfile"
    /\ lastOp.trigger \notin {"error", "throw"}
    /\ lastOp.arg = lastOp.actor
    /\ IdentityOf(lastOp.actor).username = <<>>

C9_SignedOutStaysCleared ==
    provider.lastEvent = "SIGNED_OUT" =>
        /\ auth.user = NoUser
        /\ auth.session = NoUser
        /\ auth.userProfile = NoProfile

(***************************************************************************)
(* Claims about messages and their notifications (SpecChat)                *)
(***************************************************************************)
\* the rows of table T' that T does not have, by id
NewRows(T, Tnext) == {x \in Tnext : \A y \in T : y.id # x.id}

\* C7: a step of sendMessage or sendProjectMessage that inserts message rows
\* inserts, unless its notification call fails, a notification of type chat
\* addressed to the receiver of each of them.
C7_MessageNotified ==
    [][(/\ lastOp'.op \in {"sendMessage", "sendProjectMessage"}
        /\ lastOp'.notif \notin {"error", "throw"})
            => \A m \in NewRows(messages, messages') :
                    \E n \in NewRows(notifications, notifications') :
                        n.user_id = m.receiver_id /\ n.type = "chat"]_vars

\* C8: when the notification call fails after the triggering row was
\* committed, the handler keeps the view update and shows no failure toast.
C8_NotificationFailureSwallowed ==
    (/\ lastOp.op \in {"sendMessage", "sendFriendRequest", "createTask"}
     /\ lastOp.trigger = "ok"
     /\ lastOp.notif \in {"error", "throw"})
        => /\ lastOp.viewUpdated
           /\ lastOp.toasts \cap {"send_message_failed", "send_request_failed",
                                  "create_task_failed"} = {}

\* C10: no stored message has its sender as receiver; posting such a row to
\* the table fails with the CHECK violation and adds no row to the table;
\* sendMessage and sendProjectMessage never address the acting user.
C10_NoSelfMessage ==
    [][/\ \A m \in messages' : m.sender_id # m.receiver_id
       /\ (lastOp'.op = "insertMessage" /\ lastOp'.actor = lastOp'.target)
            => lastOp'.trigger = "check_violation" /\ NewRows(messages, messages') = {}
       /\ lastOp'.op = "sendMessage" => lastOp'.target # lastOp'.actor
       /\ lastOp'.op = "sendProjectMessage" => lastOp'.actor \notin lastOp'.target]_vars

\* C10 witness: a user posted a message addressed to themselves and the
\* store answered with the CHECK violation
C10_Witness ==
    /\ lastOp.op = "insertMessage"
    /\ lastOp.actor = lastOp.target
    /\ lastOp.trigger = "check_violation"
    /\ \A m \in messages : m.sender_id # m.receiver_id

(***************************************************************************)
(* Claims about the progress computation (SpecProgress)                    *)
(***************************************************************************)
\* round(100 * c / n), halves upwards
RoundPercent(c, n) ==
    CHOOSE r \in 0..100 : 2 * n * r <= 200 * c + n /\ 200 * c + n < 2 * n * (r + 1)

\* completed rows of the list once taskId's status is replaced by status
CompletedAfter(list, taskId, status) ==
    Cardinality({i \in 1..Len(list) :
        (IF list[i].id = taskId THEN status ELSE list[i].status) = "completed"})

\* what the call should have computed
ExpectedProgress(call) ==
    IF Len(call.projectTasks) = 0 THEN 0
    ELSE RoundPercent(CompletedAfter(call.projectTasks, call.taskId, call.status),
                      Len(call.projectTasks))

\* the call moves a completed row of its list to another status
LeavesCompleted(call) ==
    \E i \in 1..Len(call.projectTasks) :
        /\ call.projectTasks[i].id = call.taskId
        /\ call.projectTasks[i].status = "completed"
        /\ call.status # "completed"

StatusChanged ==
    {t \in tasks : /\ t.project_id # NoProjectId
                   /\ \E x \in tasks' : x.id = t.id /\ x.status # t.status}

\* progress of project id over the tasks linked to it after the step
ProgressOfTasksNext(id) ==
    LET linked == {t \in tasks' : t.project_id = id}
    IN  Round100(Cardinality({t \in linked : t.status = "completed"}),
                 Cardinality(linked))

\* C12: when updateTaskStatus of the Todo page has changed the status of a
\* project-linked task, the project row holds the progress recomputed over
\* the project's tasks; so does it when updateTaskStatus of the project
\* detail view finishes after both of its store calls returned without error.
C12_StatusChangeWritesProgress ==
    [][/\ (/\ StatusChanged # {}
           /\ lastOp'.op = "todoUpdateTaskStatus" /\ lastOp'.trigger = "ok"
           /\ inflight' = inflight)
            => \A t \in StatusChanged : \A p \in projects' :
                    p.id = t.project_id => p.progress = ProgressOfTasksNext(p.id)
       /\ (/\ Len(inflight') < Len(inflight)
           /\ lastOp'.op = "updateTaskStatus" /\ lastOp'.trigger = "ok"
           /\ lastOp'.notif = "ok")
            => \A p \in projects' :
                    p.id = inflight[1].projectId
                        => p.progress = ProgressOfTasksNext(p.id)]_vars

(***************************************************************************)
(* Claims about the profile fetch (SpecAuth)                               *)
(***************************************************************************)
\* the last handler to finish was a fetchUserProfile whose select failed
ProfileFetchFailed ==
    lastOp.op = "fetchUserProfile" /\ lastOp.trigger \in {"error", "throw"}

\* the step resumes a fetchUserProfile whose user has no profile row
ResumesWithoutRow(k) ==
    /\ k \in 1..Len(authTasks)
    /\ authTasks[k].pc = "fetching"
    /\ ProfilesSingle(profiles, authTasks[k].user.id) = NoProfile
    /\ \/ authTasks' = RemoveAt(authTasks, k)
       \/ /\ Len(authTasks') = Len(authTasks)
          /\ authTasks'[k].pc # "fetching"

FriendOrPending(T, a, b) ==
    \E r \in T : /\ {r.requester_id, r.addressee_id} = {a, b}
                 /\ r.status \in {"accepted", "pending"}

\* C14: a search result, when it is shown, lists neither the searching user
\* nor a user the store holds an accepted or a pending friendship with, in
\* either orientation.
C14_SearchExcludesKnownUsers ==
    [][fview'.searchResults # fview.searchResults
        => \A i \in 1..Len(fview'.searchResults) :
            /\ fview'.searchResults[i].id # Me
            /\ ~FriendOrPending(friendships', Me, fview'.searchResults[i].id)]_vars

(***************************************************************************)
(* Claims about the notifications (SpecNotifications)                      *)
(***************************************************************************)
\* the rows of T that the step changed or removed
TouchedRows(T, Tnext) == {r \in T : r \notin Tnext}

\* C19: once deleteNotification(id) has reported success to the owner, the
\* store holds no notification with that id, so a fetchNotifications would
\* not return it; and a step of markAsRead, markAllAsRead or
\* deleteNotification changes or removes only notifications addressed to
\* the acting user.
C19_DeletedNotificationGone ==
    [][/\ (/\ lastOp'.op = "deleteNotification" /\ lastOp'.trigger = "ok"
           /\ lastOp'.actor = Me)
            => /\ \A r \in notifications' : r.id # lastOp'.target
               /\ lastOp'.target \notin Ids(FetchNotificationsResult(Me)')
       /\ lastOp'.op \in {"markAsRead", "markAllAsRead", "deleteNotification"}
            => \A r \in TouchedRows(notifications, notifications') :
                    r.user_id = lastOp'.actor]_vars

ActivityItems ==
    Range(aview.tasks) \cup {[e EXCEPT !.status = "pending"] : e \in Range(aview.events)}

\* what the page's predicates make of an item at the last render
ClassOf(item) ==
    IF RowStyle(item, aview.now) # "normal" THEN RowStyle(item, aview.now)
    ELSE IF isUpcoming(item.deadline, aview.now) THEN "upcoming"
    ELSE "normal"

\* the class the rule gives: completed, else overdue, else upcoming, else normal
ClassByRule(item, now) ==
    IF item.status = "completed" THEN "completed"
    ELSE IF item.deadline < now THEN "overdue"
    ELSE IF 0 < item.deadline - now /\ item.deadline - now <= 7 * 24 THEN "upcoming"
    ELSE "normal"

CalendarDay(t) == t \div 24

\* the label the calendar-day rule gives
LabelByCalendarDay(date, now) ==
    LET n == CalendarDay(date) - CalendarDay(now)
    IN  IF n = 0 THEN DateLabel("Today", 0)
        ELSE IF n = 1 THEN DateLabel("Tomorrow", 0)
        ELSE IF n = -1 THEN DateLabel("Yesterday", 0)
        ELSE IF n >= 2 /\ n <= 7 THEN DateLabel("In days", n)
        ELSE DateLabel("days ago", -n)

\* C17: every row shown whose deadline is within 7 calendar days of the day
\* of now carries the label of the calendar-day difference: Today, Tomorrow,
\* Yesterday, In N days or N days ago, whatever the time of day.
C17_LabelByCalendarDay ==
    \A i \in 1..Len(aview.rows) :
        \A item \in ActivityItems :
            (/\ item.id = aview.rows[i].id
             /\ CalendarDay(item.deadline) - CalendarDay(aview.now) \in -7..7)
                => aview.rows[i].label = LabelByCalendarDay(item.deadline, aview.now)

(***************************************************************************)
(* Claims about the message rows (SpecChat)                                *)
(***************************************************************************)
\* C18: every step keeps every message row with its id, sender, receiver
\* and content; the read flag of a row changes only from false to true, and
\* only on a row received by the acting user from the friend selected in
\* the chat.
C18_MessagesImmutable ==
    [][\A m \in messages :
        \E x \in messages' :
            /\ x.id = m.id
            /\ x.sender_id = m.sender_id /\ x.receiver_id = m.receiver_id
            /\ x.content = m.content
            /\ x.read # m.read
                => /\ ~m.read /\ x.read
                   /\ m.receiver_id = Me
                   /\ m.sender_id = cview.selectedFriend.id]_vars

\* C18 witness: a message received by Me has been marked read while a message
\* Me sent is still unread
C18_Witness ==
    /\ \E m \in messages : m.read /\ m.receiver_id = Me
    /\ \E m \in messages : ~m.read /\ m.sender_id = Me

(***************************************************************************)
(* Claims about the loading flag (SpecAuth)                                *)
(***************************************************************************)
\* C20: while the profile load that a SIGNED_IN or INITIAL_SESSION event
\* started for the current user has not finished, the provider reports
\* loading = true.
C20_LoadingWhileProfileLoads ==
    \A k \in 1..Len(authTasks) :
        (/\ authTasks[k].caller = "event"
         /\ auth.user # NoUser
         /\ authTasks[k].user = auth.user)
            => auth.loading


(***************************************************************************)
(* SpecInserts: the three handlers of Me that insert a row and then notify *)
(* its target (sendFriendRequest, sendMessage, createTask), each on its    *)
(* page, over the store of SpecTasks                                       *)
(***************************************************************************)
NextInserts ==
    \/ FriendsMount
    \/ FetchFriends
    \/ FetchFriendRequests
    \/ FetchSentRequests
    \/ SearchUsers
    \/ \E v \in Users : SendFriendRequest(v)
    \/ ChatMount
    \/ ChatFetchFriends
    \/ \E f \in Range(cview.friends) : SelectFriend(f)
    \/ FetchMessages
    \/ MarkMessagesAsRead
    \/ SendMessage
    \/ ProjectPageNext
    \/ \E a \in Users : CreateTask(a)

SpecInserts == InitProject /\ [][NextInserts]_vars

(***************************************************************************)
(* Claims about the order of a triggering insert and its notification      *)
(* (SpecInserts)                                                           *)
(***************************************************************************)
\* the handlers that notify the target of the row they insert
NotifyingOps == {"sendFriendRequest", "sendMessage", "createTask"}

\* the step inserts the row of handler op that concerns user target
TriggerRowInserted(op, target) ==
    CASE op = "sendFriendRequest" ->
            \E f \in NewRows(friendships, friendships') :
                f.requester_id = Me /\ f.addressee_id = target /\ f.status = "pending"
      [] op = "sendMessage" ->
            \E m \in NewRows(messages, messages') :
                m.sender_id = Me /\ m.receiver_id = target
      [] op = "createTask" ->
            \E k \in NewRows(tasks, tasks') : k.user_id = Me /\ k.assigned_to = target
      [] OTHER -> FALSE

\* C21: a step of sendFriendRequest, sendMessage or createTask inserts a
\* notification only when its triggering insert returned success and the
\* triggering row is in the store; a step whose triggering insert failed
\* inserts no notification.
C21_NotificationAfterCommit ==
    [][lastOp'.op \in NotifyingOps
        => /\ \A n \in NewRows(notifications, notifications') :
                /\ lastOp'.trigger = "ok"
                /\ TriggerRowInserted(lastOp'.op, n.user_id)
           /\ lastOp'.trigger # "ok" =>
                /\ notifications' = notifications
                /\ friendships' = friendships
                /\ messages' = messages
                /\ tasks' = tasks]_vars

\* two of the handlers have notified after their inserts (the request can be
\* sent only to the project's creator and the task assigned only to its team
\* member, so one store has one of the two), and the last call of one of
\* the handlers has failed on its triggering insert
C21_Witness ==
    /\ \E n \in notifications : n.type = "chat"
    /\ \E n \in notifications : n.type \in {"friend_request", "project"}
    /\ lastOp.op \in NotifyingOps /\ lastOp.trigger = "error"


(***************************************************************************)
(* SpecOverlap: the task buttons of the project detail view of SpecProgress *)
(* pressed while earlier updateTaskStatus calls are still suspended        *)
(***************************************************************************)
\* tasks of the project
OverlapTasks == 2

InitOverlap == InitProgress /\ Len(pview.projectTasks) = OverlapTasks

NextOverlap ==
    \/ \E id \in 1..OverlapTasks : Len(inflight) < MaxOverlap /\ UpdateTaskStatus(id)
    \/ \E k \in 1..MaxOverlap : UpdateTaskStatusTaskDone(k)
    \/ \E k \in 1..MaxOverlap : UpdateTaskStatusProjectDone(k)

SpecOverlap == InitOverlap /\ [][NextOverlap]_vars

(***************************************************************************)
(* Claims about overlapping updateTaskStatus calls (SpecOverlap)           *)
(***************************************************************************)
\* the step is the return of the project update of the last call under way,
\* and the store has taken the progress it wrote
LastCallWroteProgress ==
    /\ Len(inflight) = 1 /\ inflight' = <<>>
    /\ inflight[1].pc = "updatingProject"
    /\ lastOp'.op = "updateTaskStatus" /\ lastOp'.notif = "ok"
    /\ \A p \in projects : ProjectsUpdatePolicy(Me, p)

\* C22: when the last updateTaskStatus call under way finishes with its
\* progress written, overlapping calls on other tasks included, the progress
\* stored on the project row equals round(100 * completed / total) over the
\* task statuses stored then.
C22_OverlapKeepsProgress ==
    [][LastCallWroteProgress
        => \A p \in projects' : p.progress = ProgressOfTasksNext(p.id)]_vars


(***************************************************************************)
(* Claims about the progress the project detail view shows (SpecTasks)     *)
(***************************************************************************)
\* the step is the return of the project update of an updateTaskStatus call
\* whose view is still mounted
ProjectUpdateReturned ==
    /\ Len(inflight') < Len(inflight)
    /\ lastOp'.op = "updateTaskStatus" /\ lastOp'.trigger = "ok"
    /\ pview'.selectedProject # NoProject

\* C23: when updateTaskStatus of the project detail view finishes, the
\* progress the view shows for the selected project is the progress stored on
\* the project row, also when the store has rejected the progress write.
C23_ViewShowsStoredProgress ==
    [][ProjectUpdateReturned
        => \A p \in projects' :
                p.id = pview'.selectedProject.id
                    => pview'.selectedProject.progress = p.progress]_vars


(***************************************************************************)
(* Claims about the profile the AuthProvider ends with (SpecAuth)          *)
(***************************************************************************)
\* every fetchUserProfile call has finished, a user is signed in, and the
\* call that finished last was for that user and got an answer from the store
BinderSettled ==
    /\ authTasks = <<>>
    /\ auth.user # NoUser
    /\ lastOp.op \in {"fetchUserProfile", "createProfile"}
    /\ lastOp.actor = auth.user.id
    /\ lastOp.trigger \notin {"error", "throw"}

\* C24: once the calls started by the authentication events of the signed-in
\* identity have finished, overlapping SIGNED_IN and INITIAL_SESSION handling
\* included, and the identity's profile row exists, the provider holds that
\* row as userProfile.
C24_SettledWithProfile ==
    (BinderSettled /\ ProfileRowsOf(auth.user.id) # {})
        => /\ auth.userProfile # NoProfile
           /\ \E i \in ProfileRowsOf(auth.user.id) : auth.userProfile = profiles[i]


(***************************************************************************)
(* Claims about removing friends and cancelling requests (SpecFriends)     *)
(***************************************************************************)
\* the friendship rows of table T between users a and b, in either orientation
RowsBetween(T, a, b) ==
    {r \in T : \/ (r.requester_id = a /\ r.addressee_id = b)
               \/ (r.requester_id = b /\ r.addressee_id = a)}

\* C25: a step in which removeFriend(friendId) reports success leaves no
\* friendship row between the acting user and friendId in the store, so
\* neither user's friend list fetched next holds the other; a step in which
\* cancelFriendRequest(id) reports success leaves no row with that id.
C25_RemovedFriendshipGone ==
    [][/\ (/\ lastOp'.op = "removeFriend" /\ lastOp'.trigger = "ok"
           /\ lastOp'.actor = Me /\ "friend_removed" \in lastOp'.toasts)
            => /\ RowsBetween(friendships', Me, lastOp'.target) = {}
               /\ lastOp'.target \notin Ids(FetchFriendsResult(Me)')
               /\ \A f \in Users :
                    f = lastOp'.target => Me \notin Ids(FetchFriendsResult(f)')
       /\ (/\ lastOp'.op = "cancelFriendRequest" /\ lastOp'.trigger = "ok"
           /\ lastOp'.actor = Me)
            => \A r \in friendships' : r.id # lastOp'.target]_vars


(***************************************************************************)
(* Claims about requests to users a search returns (SpecFriends)           *)
(***************************************************************************)
\* the lists the Friends page holds are those the store would return now
ListsFresh ==
    /\ ~fview.loading
    /\ fview.friends = FetchFriendsResult(Me)
    /\ fview.friendRequests = FetchFriendRequestsResult(Me)
    /\ fview.sentRequests = FetchSentRequestsResult(Me)

\* searchUsers, run now with some query, returns user v
SearchReturns(v) ==
    \E q \in Queries :
        /\ Trim(q) # <<>>
        /\ v \in Ids(SearchFilter(fview, SearchQueryResult(Me, q)))

\* the step is a sendFriendRequest call of Me
SendFriendRequestStep ==
    /\ lastOp'.op = "sendFriendRequest" /\ lastOp'.actor = Me
    /\ lastOp.op # "sendFriendRequest" \/ lastOp.trigger # lastOp'.trigger

\* C26: a sendFriendRequest(u) for a user u that searchUsers returns from the
\* same store, the page's lists being up to date, is accepted by the store as
\* a new pending row from the searcher to u, also after an earlier request
\* between the two users was declined.
C26_SearchResultRequestable ==
    [][(/\ SendFriendRequestStep
        /\ ListsFresh
        /\ \A v \in Users : v = lastOp'.target => SearchReturns(v))
            => \A v \in Users : v = lastOp'.target =>
                FriendshipsAccepts(Me, friendships,
                    FriendshipRow(FreshId(friendships), Me, v, "pending"))]_vars


(***************************************************************************)
(* SpecMutations: the Todo page, the Notifications page and the friend     *)
(* list of the Friends page of Me, with the other user's messages as the   *)
(* source of notifications, over the store of SpecTasks                    *)
(***************************************************************************)
NextMutations ==
    \/ TodoMount
    \/ FetchTasks
    \/ AddTask
    \/ \E id \in 1..MaxTasks : TodoUpdateTaskStatus(id)
    \/ \E id \in 1..MaxTasks : DeleteTask(id)
    \/ NotificationsMount
    \/ FetchNotifications
    \/ \E id \in 1..MaxNotificationId : MarkAsRead(id)
    \/ MarkAllAsRead
    \/ \E id \in 1..MaxNotificationId : DeleteNotification(id)
    \/ \E v, x \in Users : RemoteSendMessage(v, x)
    \/ FriendsMount
    \/ FetchFriends
    \/ FetchFriendRequests
    \/ FetchSentRequests
    \/ \E f \in Users : RemoveFriend(f)

SpecMutations == InitProject /\ [][NextMutations]_vars

(***************************************************************************)
(* Claims about failed mutations (SpecMutations)                           *)
(***************************************************************************)
\* the handlers of the claim and the toast each shows in its catch block
FailureToast ==
    [addTask |-> "add_task_failed",
     todoUpdateTaskStatus |-> "update_task_failed",
     deleteTask |-> "delete_task_failed",
     markAsRead |-> "mark_read_failed",
     markAllAsRead |-> "mark_all_read_failed",
     deleteNotification |-> "delete_notification_failed",
     removeFriend |-> "remove_failed"]

\* the step is a call of one of these handlers by Me whose store call
\* returned an error
MutationFailedStep ==
    /\ lastOp'.op \in DOMAIN FailureToast
    /\ lastOp'.actor = Me
    /\ lastOp'.trigger = "error"
    /\ lastOp.op # lastOp'.op \/ lastOp.trigger # "error"

\* C27: a step of addTask, updateTaskStatus or deleteTask of the Todo page,
\* of markAsRead, markAllAsRead or deleteNotification, or of removeFriend,
\* whose store call returns an error leaves the task list, the notification
\* list and the friend list of the views as they were and shows the
\* handler's failure toast and no other.
C27_FailedMutationKeepsList ==
    [][MutationFailedStep
        => /\ tview'.tasks = tview.tasks
           /\ nview'.notifications = nview.notifications
           /\ fview'.friends = fview.friends
           /\ lastOp'.toasts = {FailureToast[lastOp'.op]}
           /\ ~lastOp'.viewUpdated]_vars

\* markAsRead has failed on an unread notification that the list still shows
\* as unread, after a task was added on the Todo page
C27_Witness ==
    /\ lastOp.op = "markAsRead" /\ lastOp.trigger = "error"
    /\ \E i \in 1..Len(nview.notifications) :
            /\ nview.notifications[i].id = lastOp.target
            /\ ~nview.notifications[i].read
    /\ tasks # {}


(***************************************************************************)
(* Claims about the target of a notification (SpecInserts)                 *)
(***************************************************************************)
\* C28: every notification a step inserts is inserted by sendFriendRequest,
\* sendMessage or createTask and addressed to a user other than the acting
\* user; createTask for a task the creator assigns to themselves inserts no
\* notification.
C28_NoSelfNotification ==
    [][/\ \A n \in NewRows(notifications, notifications') :
            /\ lastOp'.op \in NotifyingOps
            /\ n.user_id # lastOp'.actor
            /\ \A v \in Users : v = lastOp'.target => n.user_id = v
       /\ (/\ lastOp'.op = "createTask"
           /\ \A v \in Users : v = lastOp'.target => v = lastOp'.actor)
            => NewRows(notifications, notifications') = {}]_vars

\* createTask has committed a task that Me assigned to themselves, after a
\* chat notification went to the other user, and Me has no notification
C28_Witness ==
    /\ lastOp.op = "createTask" /\ lastOp.trigger = "ok"
    /\ \E k \in tasks : k.id = lastOp.arg /\ k.assigned_to = Me /\ k.user_id = Me
    /\ \E n \in notifications : n.type = "chat" /\ n.user_id # Me
    /\ \A n \in notifications : n.user_id # Me


(***************************************************************************)
(* Claims about the order of task statuses (SpecOverlap)                   *)
(***************************************************************************)
\* the status changes the task buttons stand for
ForwardSteps == {<<"pending", "in_progress">>, <<"in_progress", "completed">>}

\* C29: every change of the stored status of a task made from the buttons of
\* the views is one step forward, pending to in_progress or in_progress to
\* completed: a completed task is not moved back and a pending task is not
\* moved to completed directly.
C29_StatusMovesForward ==
    [][\A t \in tasks, u \in tasks' :
            (t.id = u.id /\ t.status # u.status)
                => <<t.status, u.status>> \in ForwardSteps]_vars


(***************************************************************************)
(* SpecTeam: the team chat of the project detail view of Me, in a project  *)
(* of three users: one of them created it with the two others, friends of  *)
(* the creator, as team members                                            *)
(***************************************************************************)
InitTeam ==
    /\ profiles = SeqOfUsers(Users)
    /\ \E c \in Users : \E team \in [1..2 -> Users \ {c}] :
        /\ team[1] # team[2]
        /\ friendships = {FriendshipRow(i, c, team[i], "accepted") : i \in 1..2}
        /\ projects = {ProjectRow(1, c, team, 0)}
    /\ messages = {} /\ notifications = {}
    /\ tasks = {} /\ nextTaskId = 1
    /\ InitViewsIdle
    /\ InitAuthIdle
    /\ lastOp = NoOp

NextTeam ==
    \/ ProjectPageNext
    \/ CloseProject
    \/ SendProjectMessage
    \/ ProjectMessagesFetched
    \/ \E v \in Users, p \in projects : RemoteSendProjectMessage(v, p)

SpecTeam == InitTeam /\ [][NextTeam]_vars

(***************************************************************************)
(* Claims about messages to the team (SpecTeam)                            *)
(***************************************************************************)
\* the members of a project, its creator included, other than user uid
OtherMembers(project, uid) ==
    ({project.creator_id} \cup Range(project.team_members)) \ {uid}

\* the step is a sendProjectMessage call of Me
SendProjectMessageStep ==
    /\ lastOp'.op = "sendProjectMessage" /\ lastOp'.actor = Me
    /\ \/ messages' # messages
       \/ lastOp.op # "sendProjectMessage"
       \/ lastOp.trigger # lastOp'.trigger

\* C30: a sendProjectMessage call that reports success has inserted exactly
\* one message from the sender to each member of the project other than the
\* sender and no other row; a call in which an insert fails reports failure,
\* has inserted one message to each of the receivers before the failing one
\* and none after it, and the rows inserted before the failure stay in the
\* store.
C30_TeamMessageToEachMember ==
    [][SendProjectMessageStep
        => LET members == OtherMembers(pview.selectedProject, Me)
               new == NewRows(messages, messages')
           IN  /\ messages \subseteq messages'
               /\ \A m \in new : m.sender_id = Me /\ m.receiver_id \in members
               /\ \A r \in members :
                    Cardinality({m \in new : m.receiver_id = r}) <= 1
               /\ Cardinality(new) = lastOp'.arg
               /\ lastOp'.trigger = "ok" =>
                    /\ Cardinality(new) = Cardinality(members)
                    /\ lastOp'.toasts = {"message_sent_to_team"}
               /\ lastOp'.trigger # "ok" =>
                    /\ Cardinality(new) < Cardinality(members)
                    /\ lastOp'.toasts = {"send_message_failed"}]_vars

\* sendProjectMessage has failed on its second insert: the message to the
\* first receiver is in the store and the second receiver has none
C30_Witness ==
    /\ lastOp.op = "sendProjectMessage" /\ lastOp.actor = Me
    /\ lastOp.trigger = "error" /\ lastOp.arg = 1
    /\ Cardinality({m \in messages : m.sender_id = Me}) = 1

====
